------------------------------- MODULE IpReass -------------------------------
(***************************************************************************)
(* IPv4 reassembly (Middlewares/lwip/src/core/ipv4/ip4_frag.c): the list   *)
(* of datagrams whose fragments are arriving, and the number of packet     *)
(* buffers they hold.  The operators are functions from one such list to   *)
(* the next; RxPath has the variables and the steps.                       *)
(*                                                                         *)
(* A fragment is [start, end) of its datagram, and as many buffers long.   *)
(***************************************************************************)
EXTENDS Naturals, Sequences, FiniteSets, FiniteSetsExt

CONSTANTS
  Ids,            \* datagrams
  Size,           \* the length of each
  MaxPbufs,       \* IP_REASS_MAX_PBUFS
  NumReass,       \* MEMP_NUM_REASSDATA
  ReassMaxAge     \* IP_REASS_MAXAGE

ASSUME ReassConstantsOK ==
  /\ Size \in Nat \ {0, 1} /\ MaxPbufs \in Nat /\ NumReass \in Nat /\ ReassMaxAge \in Nat

\* The fragments of a datagram as the network may deliver them, cut anywhere: a
\* router may cut them again.  None is empty, and the last one says so.
Fragments == {f \in [start : 0 .. Size - 1, end : 1 .. Size] :
                f.start < f.end /\ f.end - f.start < Size}

Clen(frags)    == MapThenSumSet(LAMBDA f : f.end - f.start, frags)
Clens(l, s)    == MapThenSumSet(LAMBDA i : Clen(l[i].frags), s)
ReassHeld(l)   == Clens(l, DOMAIN l)

Overlap(f, g) == f.start < g.end /\ g.start < f.end

\* A slip of Whole: it is when its ends are there.
WholeEnds(frags) ==
  /\ \E f \in frags : f.end = Size
  /\ \E f \in frags : f.start = 0

\* IP_REASS_VALIDATE_TELEGRAM_FINISHED.
Whole(frags) ==
  /\ \E f \in frags : f.end = Size
  /\ \A f \in frags : f.start = 0 \/ \E g \in frags : g.end = f.start

-----------------------------------------------------------------------------
(* A state of reassembly: the list, the count, the buffers freed so far.   *)

\* The entries of l but those at s (ip_reass_dequeue_datagram).
Without(l, s) ==
  LET kept[k \in 0 .. Len(l)] ==
        IF k = 0 THEN <<>>
        ELSE IF k \in s THEN kept[k - 1] ELSE Append(kept[k - 1], l[k])
  IN kept[Len(l)]

\* ip_reass_free_complete_datagram for the datagrams at s.
Free(st, s) ==
  [l     |-> Without(st.l, s),
   count |-> st.count - Clens(st.l, s),
   freed |-> st.freed + Clens(st.l, s)]

\* The datagram with the shortest time left, of several the last one.
Older(l, i, j) ==
  \/ l[i].timer < l[j].timer
  \/ l[i].timer = l[j].timer /\ i > j

\* ip_reass_remove_oldest_datagram: other datagrams, the oldest first, until
\* n buffers are free.
Victims(l, id, n) ==
  LET others == {i \in DOMAIN l : l[i].id # id}
  IN {i \in others : Clens(l, {j \in others : Older(l, j, i)}) < n}

WithRoom(st, id, n) ==
  IF st.count + n > MaxPbufs THEN Free(st, Victims(st.l, id, n)) ELSE st

Entry(l, id) == {i \in DOMAIN l : l[i].id = id}

\* With an entry for id, if there is memory for one (or enough is freed).
WithEntry(st, id, n) ==
  LET s   == Victims(st.l, id, n)
      new == <<[id |-> id, frags |-> {}, timer |-> ReassMaxAge]>>
  IN CASE Entry(st.l, id) # {} -> st
       [] Entry(st.l, id) = {} /\ Len(st.l) < NumReass -> [st EXCEPT !.l = new \o @]
       [] OTHER -> IF Clens(st.l, s) >= n
                   THEN [Free(st, s) EXCEPT !.l = new \o @] ELSE Free(st, s)

\* nullreturn: the fragment is freed.
Dropped(st, n) == [st EXCEPT !.freed = @ + n]

\* nullreturn_ipr: an entry that was made for the fragment goes.
Unmade(st, id) ==
  [st EXCEPT !.l = Without(st.l, {i \in Entry(st.l, id) : st.l[i].frags = {}})]

\* ip_reass_chain_frag_into_datagram_and_validate: a whole datagram leaves.
Queued(st, i, f) ==
  LET frags == st.l[i].frags \cup {f}
  IN IF Whole(frags)
     THEN [st EXCEPT !.l = Without(@, {i}), !.count = @ - Clen(st.l[i].frags)]
     ELSE [st EXCEPT !.l[i].frags = frags, !.count = @ + Clen({f})]

-----------------------------------------------------------------------------
(* The entry points.                                                       *)

\* ip4_reass, with the fragments of the datagram it returns, if any.  A
\* fragment that is not ok ends beyond what 16 bits can say: it is thrown away
\* when room and an entry have been made for it.
Reass(l, count, id, f, ok) ==
  LET n  == Clen({f})
      r  == WithRoom([l |-> l, count |-> count, freed |-> 0], id, n)
      e  == WithEntry(r, id, n)
      at == CHOOSE i \in Entry(e.l, id) : TRUE
      lost(st) == [st |-> Dropped(st, n), up |-> {}]
  IN IF r.count + n > MaxPbufs THEN lost(r)
     ELSE IF Entry(e.l, id) = {} THEN lost(e)
     ELSE IF ~ok \/ \E g \in e.l[at].frags : Overlap(f, g) THEN lost(Unmade(e, id))
     ELSE [st |-> Queued(e, at, f),
           up |-> LET u == e.l[at].frags \cup {f} IN IF Whole(u) THEN u ELSE {}]

\* ip_reass_tmr.
ReassTmr(l, count) ==
  LET k == Free([l |-> l, count |-> count, freed |-> 0], {i \in DOMAIN l : l[i].timer = 0})
      aged == [i \in DOMAIN k.l |-> [k.l[i] EXCEPT !.timer = @ - 1]]
  IN [k EXCEPT !.l = aged]
=============================================================================
