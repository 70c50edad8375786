-------------------------------- MODULE Etharp --------------------------------
(***************************************************************************)
(* The ARP table (Middlewares/lwip/src/core/ipv4/etharp.c) with            *)
(* ARP_QUEUEING off: an entry that waits for an answer keeps one packet,   *)
(* the newest, and a full table recycles entries.  Three operations meet   *)
(* in it: etharp_output for every IP packet to a neighbour, etharp_input   *)
(* for every ARP message, etharp_tmr once a second.                        *)
(*                                                                         *)
(* The network is in the inputs: a neighbour answers or not, any number of *)
(* times, and may come back with another hardware address.  External: the  *)
(* caller of etharp_output, which allocates the packet and frees it.       *)
(***************************************************************************)
EXTENDS Naturals, FiniteSets

CONSTANTS
  TableSize,        \* ARP_TABLE_SIZE
  Ips,              \* the neighbours
  Macs,             \* hardware addresses a neighbour can have
  Buffers,          \* packet buffers for each neighbour
  None,
  MaxAge,           \* ARP_MAXAGE
  MaxPending,       \* ARP_MAXPENDING
  Rerequest         \* ARP_AGE_REREQUEST_USED_UNICAST

\* A packet is for a neighbour and in one of the buffers.
Packets == Ips \X Buffers
Dst(p)  == p[1]

ASSUME EtharpConstantsOK ==
  /\ TableSize \in Nat \ {0}
  /\ MaxPending \in Nat \ {0} /\ MaxAge \in Nat /\ MaxPending < MaxAge
  /\ Rerequest \in Nat /\ Rerequest < MaxAge
  /\ None \notin Packets \cup Macs

Index == 0 .. TableSize - 1

VARIABLES
  arp_table,
  cached,      \* etharp_cached_entry
  ref,         \* references to each packet buffer
  (* history *)
  heard,       \* the hardware address a neighbour was last heard with
  wire         \* the packets the last step has sent, with their address

vars == <<arp_table, cached, ref, heard, wire>>

Stable == {"STABLE", "REREQUESTING_1", "REREQUESTING_2"}
Frame(p, mac) == [p |-> p, mac |-> mac]

Init ==
  /\ \E ip \in Ips, mac \in Macs :
       arp_table = [i \in Index |-> [state |-> "EMPTY", ip |-> ip, ctime |-> 0,
                                     mac |-> mac, q |-> None]]
  /\ cached = 0
  /\ ref = [p \in Packets |-> 0]
  /\ heard = [ip \in Ips |-> None]
  /\ wire = {}

-----------------------------------------------------------------------------
(* Finding and recycling entries.                                          *)

HoldersOf(ip) == {i \in Index : arp_table[i].state # "EMPTY" /\ arp_table[i].ip = ip}
Empty == {i \in Index : arp_table[i].state = "EMPTY"}

\* A slip of Recyclable: whether a packet waits is not looked at.
RecyclableStable ==
  LET stable == {i \in Index : arp_table[i].state \in Stable}
  IN IF stable # {} THEN stable ELSE Index

\* The entries recycling prefers: stable, then without a packet, then any.
Recyclable ==
  LET stable  == {i \in Index : arp_table[i].state \in Stable}
      pending == {i \in Index : arp_table[i].state = "PENDING" /\ arp_table[i].q = None}
  IN IF stable # {} THEN stable ELSE IF pending # {} THEN pending ELSE Index

\* The oldest of s, the last of several.
Oldest(s) ==
  {i \in s : \A j \in s : \/ arp_table[i].ctime > arp_table[j].ctime
                          \/ arp_table[i].ctime = arp_table[j].ctime /\ i >= j}
First(s) == {i \in s : \A j \in s : i <= j}

\* etharp_find_entry with ETHARP_FLAG_TRY_HARD: the one entry it returns.
FindEntry(ip) ==
  IF HoldersOf(ip) # {} THEN HoldersOf(ip)
  ELSE IF Empty # {} THEN First(Empty)
  ELSE Oldest(Recyclable)

\* A slip of Freed: the packet is not.
FreedKept(r, i) == r

\* etharp_free_entry drops the reference to the packet of entry i.
Freed(r, i) ==
  IF arp_table[i].q = None THEN r ELSE [r EXCEPT ![arp_table[i].q] = @ - 1]

-----------------------------------------------------------------------------
(* Output.                                                                 *)

\* A slip of Hint: the entry may have been recycled since.
HintOld(ip) == arp_table[cached].state \in Stable

\* The entry of the last packet, asked first.
Hint(ip) == arp_table[cached].state \in Stable /\ arp_table[cached].ip = ip

\* etharp_output_to_arp_index: a used entry that is getting old is asked
\* for again, if there is memory for the request.
ToIndex(i, p, mem) ==
  /\ arp_table' =
       IF mem /\ arp_table[i].state = "STABLE" /\ arp_table[i].ctime >= Rerequest
       THEN [arp_table EXCEPT ![i].state = "REREQUESTING_1"] ELSE arp_table
  /\ cached' = i
  /\ wire' = {Frame(p, arp_table[i].mac)}
  /\ ref' = ref

\* etharp_query: the packet waits in place of an older one, in a new entry
\* or in one that is there already.
Query(i, ip, p) ==
  /\ ref' = [Freed(ref, i) EXCEPT ![p] = @ + 1]
  /\ arp_table' =
       [arp_table EXCEPT ![i] =
          IF i \in HoldersOf(ip) THEN [@ EXCEPT !.q = p]
          ELSE [@ EXCEPT !.state = "PENDING", !.ip = ip, !.ctime = 0, !.q = p]]
  /\ wire' = {}
  /\ UNCHANGED cached

\* etharp_query for a fragment of a reply longer than the MTU: its buffers
\* refer to the reply (PBUF_REF), and there is no memory for the copy that
\* would wait.  A new entry is made all the same, an old one keeps its packet.
QueryNoCopy(i, ip) ==
  /\ \/ i \in HoldersOf(ip) /\ UNCHANGED <<arp_table, ref>>
     \/ /\ i \notin HoldersOf(ip)
        /\ ref' = Freed(ref, i)
        /\ arp_table' = [arp_table EXCEPT ![i] =
                           [@ EXCEPT !.state = "PENDING", !.ip = ip, !.ctime = 0, !.q = None]]
  /\ wire' = {}
  /\ UNCHANGED cached

StableFor(ip) == {i \in HoldersOf(ip) : arp_table[i].state \in Stable}

\* etharp_output; the caller's own reference comes and goes.
EtharpOutput(p) ==
  /\ ref[p] = 0
  /\ \/ Hint(Dst(p)) /\ \E mem \in BOOLEAN : ToIndex(cached, p, mem)
     \/ ~Hint(Dst(p)) /\ \E mem \in BOOLEAN, i \in StableFor(Dst(p)) : ToIndex(i, p, mem)
     \/ ~Hint(Dst(p)) /\ StableFor(Dst(p)) = {}
        /\ \E i \in FindEntry(Dst(p)) : Query(i, Dst(p), p) \/ QueryNoCopy(i, Dst(p))
  /\ UNCHANGED heard

-----------------------------------------------------------------------------
(* Input and timer.                                                        *)

Updated(e, ip, mac) ==
  [e EXCEPT !.state = "STABLE", !.ip = ip, !.ctime = 0, !.q = None, !.mac = mac]

\* etharp_input, and etharp_update_arp_entry: a message for us makes an
\* entry, any message updates one; the packet that waited is sent.
EtharpInput(ip, mac, forUs) ==
  /\ heard' = [heard EXCEPT ![ip] = mac]
  /\ \/ /\ forUs \/ HoldersOf(ip) # {}
        /\ \E i \in FindEntry(ip) :
             /\ arp_table' = [arp_table EXCEPT ![i] = Updated(@, ip, mac)]
             /\ wire' = IF i \in HoldersOf(ip) /\ arp_table[i].q # None
                        THEN {Frame(arp_table[i].q, mac)} ELSE {}
             /\ ref' = Freed(ref, i)
     \/ /\ ~forUs /\ HoldersOf(ip) = {}
        /\ wire' = {} /\ UNCHANGED <<arp_table, ref>>
  /\ UNCHANGED cached

Expires(e) ==
  \/ e.ctime + 1 >= MaxAge
  \/ e.state = "PENDING" /\ e.ctime + 1 >= MaxPending

\* etharp_tmr for one entry; a pending one is asked for again.
Aged(e) ==
  CASE e.state = "EMPTY" -> e
    [] e.state # "EMPTY" /\ Expires(e) ->
         [e EXCEPT !.ctime = @ + 1, !.state = "EMPTY", !.q = None]
    [] OTHER ->
         [e EXCEPT !.ctime = @ + 1,
                   !.state = CASE @ = "REREQUESTING_1" -> "REREQUESTING_2"
                               [] @ = "REREQUESTING_2" -> "STABLE"
                               [] OTHER -> @]

EtharpTmr ==
  /\ arp_table' = [i \in Index |-> Aged(arp_table[i])]
  /\ ref' = [p \in Packets |->
               ref[p] - Cardinality({i \in Index : /\ arp_table[i].q = p
                                                   /\ Expires(arp_table[i])})]
  /\ wire' = {}
  /\ UNCHANGED <<cached, heard>>

Next ==
  \/ \E p \in Packets : EtharpOutput(p)
  \/ \E ip \in Ips, mac \in Macs, forUs \in BOOLEAN : EtharpInput(ip, mac, forUs)
  \/ EtharpTmr

Spec == Init /\ [][Next]_vars
-----------------------------------------------------------------------------
(* Correctness.                                                            *)

Entries == [state : Stable \cup {"EMPTY", "PENDING"}, ip : Ips, ctime : 0 .. MaxAge,
            mac : Macs, q : Packets \cup {None}]

\* Every variable keeps its type; a packet has one reference at most.
TypeOK ==
  /\ arp_table \in [Index -> Entries]
  /\ cached \in Index
  /\ ref \in [Packets -> 0 .. 1]
  /\ heard \in [Ips -> Macs \cup {None}]
  /\ wire \subseteq [p : Packets, mac : Macs]

\* A neighbour has one entry at most: no second one is made while the first
\* waits, is stable or is asked for again (lines 284-402).
OneEntryEach ==
  \A i, j \in Index :
    /\ arp_table[i].state # "EMPTY" /\ arp_table[j].state # "EMPTY"
    /\ arp_table[i].ip = arp_table[j].ip
    => i = j

\* A packet is referenced once while an entry holds it and not at all
\* otherwise, and only a pending entry holds one.
RefsExact ==
  /\ \A p \in Packets : ref[p] = IF \E i \in Index : arp_table[i].q = p THEN 1 ELSE 0
  /\ \A i \in Index : arp_table[i].q # None => arp_table[i].state = "PENDING"

(***************************************************************************)
(* The table is sound.  A neighbour has one entry at most, and no packet   *)
(* is lost when its entry is recycled, times out or gets a newer one, nor  *)
(* freed while it waits (lines 168-189, 284-402, 481-490 and 1012-1083).   *)
(***************************************************************************)
TableSound == TypeOK /\ OneEntryEach /\ RefsExact

(***************************************************************************)
(* What is sent to a neighbour goes to the hardware address it was heard   *)
(* with last, also by way of etharp_cached_entry when that entry has been  *)
(* recycled, and also when the packet had to wait (lines 862-887 and 487). *)
(***************************************************************************)
RightAddress == \A f \in wire : f.mac = heard[Dst(f.p)]

(***************************************************************************)
(* A packet that waits loses its place to another neighbour only when      *)
(* every entry of the table has a packet that waits: "oldest pending       *)
(* entry without queued packets" before "with queued packets" (lines       *)
(* 271-276).                                                               *)
(***************************************************************************)
WaitingKept ==
  [][\A i \in Index :
       (arp_table[i].q # None /\ arp_table'[i].ip # arp_table[i].ip)
         => \A j \in Index : arp_table[j].q # None]_vars
=============================================================================
