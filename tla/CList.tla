------------------------------- MODULE CList -------------------------------
(***************************************************************************)
(* The concurrent linked list of libs/clist/clist.go.  A list is a record; *)
(* its elements are numbered in the order they were pushed and a removed   *)
(* element stays where readers can still hold it.  An element has prev and *)
(* next, removed, and two wait channels of which only "closed or not"      *)
(* matters; the wait group next to each channel is done exactly when the   *)
(* channel is closed.  Closing a channel twice, or removing what the list  *)
(* does not hold, panics.                                                  *)
(***************************************************************************)
EXTENDS Integers, Sequences

Nil == 0

New == [head |-> Nil, tail |-> Nil, len |-> 0, waitClosed |-> FALSE,
        elems |-> <<>>, panic |-> FALSE]

NewElement(v) ==
    [prev |-> Nil, prevClosed |-> FALSE, next |-> Nil, nextClosed |-> FALSE,
     removed |-> FALSE, Value |-> v]

Live(l) == {e \in DOMAIN l.elems : ~l.elems[e].removed}

(* SetNext: a reader of a last element waits on a channel that opens when
   the element becomes the last one and closes when it stops being it. *)
SetNext(l, e, n) ==
    LET old == l.elems[e].next
        closes == old = Nil /\ n # Nil IN
    [l EXCEPT !.elems[e].next = n,
              !.elems[e].nextClosed = IF old # Nil /\ n = Nil THEN FALSE ELSE @ \/ closes,
              !.panic = @ \/ (closes /\ l.elems[e].nextClosed)]

SetPrev(l, e, p) ==
    LET old == l.elems[e].prev
        closes == old = Nil /\ p # Nil IN
    [l EXCEPT !.elems[e].prev = p,
              !.elems[e].prevClosed = IF old # Nil /\ p = Nil THEN FALSE ELSE @ \/ closes,
              !.panic = @ \/ (closes /\ l.elems[e].prevClosed)]

(* Mutant of SetRemoved: the readers that wait on the element are not woken. *)
SetRemovedSilently(l, e) ==
    [l EXCEPT !.elems[e].removed = TRUE]

SetRemoved(l, e) ==
    LET x == l.elems[e] IN
    [l EXCEPT !.elems[e].removed = TRUE,
              !.elems[e].prevClosed = @ \/ x.prev = Nil,
              !.elems[e].nextClosed = @ \/ x.next = Nil,
              !.panic = \/ @
                        \/ x.prev = Nil /\ x.prevClosed
                        \/ x.next = Nil /\ x.nextClosed]

DetachPrev(l, e) ==
    [l EXCEPT !.elems[e].prev = Nil, !.panic = @ \/ ~l.elems[e].removed]

PushBack(l, v) ==
    LET e == Len(l.elems) + 1
        pushed == [l EXCEPT !.elems = Append(@, NewElement(v)),
                            !.len = @ + 1,
                            !.waitClosed = @ \/ l.len = 0,
                            !.panic = @ \/ (l.len = 0 /\ l.waitClosed)] IN
    IF l.tail = Nil
    THEN [pushed EXCEPT !.head = e, !.tail = e]
    ELSE [SetNext(SetPrev(pushed, e, l.tail), l.tail, e) EXCEPT !.tail = e]

(* Remove: what it panics on leaves the list alone. *)
Remove(l, e) ==
    LET prev == l.elems[e].prev
        next == l.elems[e].next
        bad == \/ l.head = Nil \/ l.tail = Nil
               \/ prev = Nil /\ l.head # e
               \/ next = Nil /\ l.tail # e
        fewer == [l EXCEPT !.len = @ - 1, !.waitClosed = @ /\ l.len # 1]
        left == IF prev = Nil THEN [fewer EXCEPT !.head = next]
                              ELSE SetNext(fewer, prev, next)
        right == IF next = Nil THEN [left EXCEPT !.tail = prev]
                               ELSE SetPrev(left, next, prev) IN
    IF bad THEN [l EXCEPT !.panic = TRUE] ELSE SetRemoved(right, e)

(* The elements a reader passes that goes on from e, e included. *)
From(l, e) ==
    LET walk[n \in 0..Len(l.elems)] ==
            IF n = 0 THEN <<e>>
            ELSE LET w == walk[n - 1] IN
                 IF w[Len(w)] = Nil \/ l.elems[w[Len(w)]].next = Nil THEN w
                 ELSE Append(w, l.elems[w[Len(w)]].next) IN
    IF e = Nil THEN <<>> ELSE walk[Len(l.elems)]
=============================================================================
