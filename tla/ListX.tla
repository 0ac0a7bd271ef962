------------------------------- MODULE ListX -------------------------------
(***************************************************************************)
(* The circular lists of listx.h.  A heap maps the address of a list_head  *)
(* to its two pointers; each operator returns the heap that the function   *)
(* of that name leaves.  An EXCEPT with several parts does the assignments *)
(* in their order, as in the source.                                       *)
(***************************************************************************)
EXTENDS Integers, SequencesExt

INIT_LIST_HEAD(m, l) == [m EXCEPT ![l] = [next |-> l, prev |-> l]]

\* __list_add
list_add_between(m, new, prev, next) ==
    [m EXCEPT ![next].prev = new, ![new].next = next, ![new].prev = prev, ![prev].next = new]

\* at the head, at the tail
list_add(m, new, head) == list_add_between(m, new, head, m[head].next)
list_add_tail(m, new, head) == list_add_between(m, new, m[head].prev, head)

\* list_del and __list_del: the pointers of entry itself stay as they are
list_del(m, entry) ==
    LET prev == m[entry].prev
        next == m[entry].next
    IN  [m EXCEPT ![next].prev = prev, ![prev].next = next]

list_empty(m, head) == m[head].next = head

\* list_for_each_entry: the entries met from head on.  A list that does not
\* come back to its sentinel within "most" entries is cut off there.
entries(m, head, most) ==
    LET first[i \in 0 .. most] ==
            IF i = 0 THEN <<>>
            ELSE LET met == first[i - 1]
                     pos == m[IF met = <<>> THEN head ELSE Last(met)].next
                 IN  IF pos = head THEN met ELSE Append(met, pos)
    IN  first[most]

\* The list is a circle of at most "most" entries, the same one both ways.
Circular(m, head, most) ==
    LET list == entries(m, head, most)
        loop == <<head>> \o list \o <<head>>
    IN  \A i \in 1 .. Len(list) + 1 : /\ m[loop[i]].next = loop[i + 1]
                                      /\ m[loop[i + 1]].prev = loop[i]
=============================================================================
