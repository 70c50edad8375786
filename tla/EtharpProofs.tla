----------------------------- MODULE EtharpProofs -----------------------------
(***************************************************************************)
(* Proofs about the ARP table, for every size of it, any neighbours and    *)
(* all ages.                                                               *)
(***************************************************************************)
EXTENDS Etharp, FiniteSetTheorems, TLAPS

\* An entry in use has not reached the end of its time.
Young == \A i \in Index : arp_table[i].state # "EMPTY" => arp_table[i].ctime < MaxAge

\* A packet waits in the entry of the neighbour it is for.
Waits ==
  \A i \in Index : arp_table[i].q # None =>
    arp_table[i].state = "PENDING" /\ arp_table[i].ip = Dst(arp_table[i].q)

\* A stable entry has the address its neighbour was last heard with.
Known ==
  \A i \in Index : arp_table[i].state \in Stable =>
    arp_table[i].mac = heard[arp_table[i].ip]

Refs ==
  \A p \in Packets : ref[p] = IF \E i \in Index : arp_table[i].q = p THEN 1 ELSE 0

\* The inductive invariant.
Inv ==
  /\ TypeOK /\ Young /\ OneEntryEach /\ Waits /\ Known /\ Refs /\ RightAddress

\* The constants of the table.
LEMMA Nats ==
  /\ MaxAge \in Nat /\ MaxAge > 0 /\ TableSize \in Nat /\ 0 \in Index
  /\ None \notin Packets /\ None \notin Macs
  /\ \A p \in Packets : Dst(p) \in Ips
<1>1. MaxAge > 0 /\ 0 \in Index
  BY EtharpConstantsOK DEF Index
<1>2. \A p \in Packets : Dst(p) \in Ips
  BY DEF Packets, Dst
<1> QED BY <1>1, <1>2, EtharpConstantsOK

\* The type of each field.
LEMMA Fields ==
  ASSUME TypeOK, NEW i \in Index
  PROVE  /\ arp_table[i] \in Entries
         /\ arp_table[i].state \in Stable \cup {"EMPTY", "PENDING"}
         /\ arp_table[i].ip \in Ips /\ arp_table[i].ctime \in 0 .. MaxAge
         /\ arp_table[i].mac \in Macs /\ arp_table[i].q \in Packets \cup {None}
<1>1. arp_table[i] \in Entries
  BY DEF TypeOK
<1> QED BY <1>1 DEF Entries

\* An entry with fields replaced is an entry.
LEMMA Update ==
  ASSUME NEW S1, NEW S2, NEW S3, NEW S4, NEW S5,
         NEW e \in [state : S1, ip : S2, ctime : S3, mac : S4, q : S5],
         NEW s \in S1, NEW ip \in S2, NEW c \in S3, NEW m \in S4, NEW q \in S5
  PROVE  LET E == [state : S1, ip : S2, ctime : S3, mac : S4, q : S5] IN
         /\ [e EXCEPT !.ctime = c, !.state = s] \in E
         /\ [e EXCEPT !.ctime = c, !.state = s, !.q = q] \in E
         /\ [e EXCEPT !.state = s, !.ip = ip, !.ctime = c, !.q = q] \in E
         /\ [e EXCEPT !.state = s, !.ip = ip, !.ctime = c, !.q = q, !.mac = m] \in E
OBVIOUS

\* No two entries hold the same packet.
LEMMA OneHolder ==
  ASSUME Inv, NEW i \in Index, NEW j \in Index,
         arp_table[i].q # None, arp_table[i].q = arp_table[j].q
  PROVE  i = j
BY DEF Inv, Waits, OneEntryEach

-----------------------------------------------------------------------------
\* etharp_find_entry returns an entry; when the neighbour has one, that one.
LEMMA FindEntryFacts ==
  ASSUME Inv, NEW ip \in Ips, NEW i \in FindEntry(ip)
  PROVE  /\ i \in Index
         /\ i \in HoldersOf(ip) \/ HoldersOf(ip) = {}
BY DEF FindEntry, HoldersOf, Empty, First, Oldest, Recyclable

\* Freeing the packet of an entry takes its reference, and no other.
LEMMA FreedFacts ==
  ASSUME Inv, NEW i \in Index
  PROVE  /\ Freed(ref, i) \in [Packets -> 0 .. 1]
         /\ \A p \in Packets : Freed(ref, i)[p] =
              IF \E j \in Index \ {i} : arp_table[j].q = p THEN 1 ELSE 0
<1>1. ref \in [Packets -> 0 .. 1]
  BY DEF Inv, TypeOK
<1>2. CASE arp_table[i].q = None
  <2>1. \A p \in Packets : arp_table[i].q # p
    BY <1>2, Nats
  <2> QED BY <1>1, <1>2, <2>1 DEF Freed, Inv, Refs
<1>3. CASE arp_table[i].q # None
  <2> DEFINE o == arp_table[i].q
  <2>1. o \in Packets
    BY <1>3, Fields DEF Inv
  <2>2. ref[o] = 1
    BY <2>1 DEF Inv, Refs
  <2>3. Freed(ref, i) = [ref EXCEPT ![o] = 0]
    BY <1>3, <2>2, <1>1, <2>1 DEF Freed
  <2>4. \A j \in Index \ {i} : arp_table[j].q # o
    BY <1>3, OneHolder
  <2> QED BY <1>1, <2>1, <2>3, <2>4 DEF Inv, Refs
<1> QED BY <1>2, <1>3

-----------------------------------------------------------------------------
\* The invariant holds of the empty table.
LEMMA InitInv == Init => Inv
<1> SUFFICES ASSUME Init PROVE Inv
  OBVIOUS
<1>1. PICK ip \in Ips, mac \in Macs :
        arp_table = [i \in Index |-> [state |-> "EMPTY", ip |-> ip, ctime |-> 0,
                                      mac |-> mac, q |-> None]]
  BY DEF Init
<1>2. \A i \in Index : arp_table[i] = [state |-> "EMPTY", ip |-> ip, ctime |-> 0,
                                        mac |-> mac, q |-> None]
  BY <1>1
<1>3. [state |-> "EMPTY", ip |-> ip, ctime |-> 0, mac |-> mac, q |-> None] \in Entries
  BY Nats DEF Entries
<1>4. arp_table \in [Index -> Entries]
  BY <1>1, <1>3
<1>5. TypeOK
  BY <1>4, Nats DEF Init, TypeOK
<1>6. Young /\ OneEntryEach /\ Waits
  BY <1>2 DEF Young, OneEntryEach, Waits
<1>7. Known
  BY <1>2 DEF Known, Stable
<1>8. Refs
  <2>1. \A p \in Packets, i \in Index : arp_table[i].q # p
    BY <1>2, Nats
  <2> QED BY <2>1 DEF Refs, Init
<1> QED BY <1>5, <1>6, <1>7, <1>8 DEF Inv, RightAddress, Init

\* A packet goes out through a stable entry.
LEMMA ToIndexInv ==
  ASSUME Inv, NEW p \in Packets, NEW i \in StableFor(Dst(p)), NEW mem \in BOOLEAN,
         ToIndex(i, p, mem), heard' = heard
  PROVE  Inv'
<1>1. i \in Index /\ arp_table[i].state \in Stable /\ arp_table[i].ip = Dst(p)
  BY DEF StableFor, HoldersOf
<1>2. /\ arp_table \in [Index -> Entries] /\ arp_table[i].mac \in Macs
      /\ ref \in [Packets -> 0 .. 1] /\ heard \in [Ips -> Macs \cup {None}]
  BY <1>1, Fields DEF Inv, TypeOK
<1> DEFINE up == [arp_table[i] EXCEPT !.state = "REREQUESTING_1"]
<1>3. arp_table' = arp_table \/ arp_table' = [arp_table EXCEPT ![i] = up]
  BY DEF ToIndex
<1>4. up \in Entries
  BY <1>1, Fields DEF Inv, Entries, Stable
<1>5. TypeOK'
  <2>1. arp_table' \in [Index -> Entries]
    BY <1>2, <1>3, <1>4
  <2>2. wire' \subseteq [p : Packets, mac : Macs]
    BY <1>2 DEF ToIndex, Frame
  <2> QED BY <1>1, <1>2, <2>1, <2>2 DEF TypeOK, ToIndex
<1>6. \A j \in Index : /\ arp_table'[j].ip = arp_table[j].ip
                       /\ arp_table'[j].ctime = arp_table[j].ctime
                       /\ arp_table'[j].mac = arp_table[j].mac
                       /\ arp_table'[j].q = arp_table[j].q
                       /\ \/ arp_table'[j].state = arp_table[j].state
                          \/ /\ arp_table'[j].state = "REREQUESTING_1"
                             /\ arp_table[j].state \in Stable
  <2>1. /\ up.ip = arp_table[i].ip /\ up.ctime = arp_table[i].ctime
        /\ up.mac = arp_table[i].mac /\ up.q = arp_table[i].q
        /\ up.state = "REREQUESTING_1"
    BY <1>1, Fields DEF Inv, Entries
  <2> HIDE DEF up
  <2> QED BY <1>1, <1>2, <1>3, <2>1
<1>7. (Young /\ OneEntryEach /\ Waits /\ Known)'
  BY <1>6 DEF Inv, Young, OneEntryEach, Waits, Known, Stable
<1>8. Refs'
  BY <1>6 DEF Inv, Refs, ToIndex
<1>9. RightAddress'
  <2>1. arp_table[i].mac = heard[Dst(p)]
    BY <1>1 DEF Inv, Known
  <2>2. wire' = {[p |-> p, mac |-> arp_table[i].mac]}
    BY DEF ToIndex, Frame
  <2> QED BY <2>1, <2>2 DEF RightAddress
<1> QED BY <1>5, <1>7, <1>8, <1>9 DEF Inv

\* A packet waits in the entry found for it.
LEMMA QueryInv ==
  ASSUME Inv, NEW p \in Packets, ref[p] = 0, StableFor(Dst(p)) = {},
         NEW i \in FindEntry(Dst(p)), Query(i, Dst(p), p), heard' = heard
  PROVE  Inv'
<1> DEFINE ip == Dst(p)
           e  == IF i \in HoldersOf(ip) THEN [arp_table[i] EXCEPT !.q = p]
                 ELSE [arp_table[i] EXCEPT !.state = "PENDING", !.ip = ip, !.ctime = 0,
                                           !.q = p]
<1>1. ip \in Ips /\ i \in Index /\ (i \in HoldersOf(ip) \/ HoldersOf(ip) = {})
  BY FindEntryFacts, Nats
<1>2. /\ arp_table \in [Index -> Entries] /\ ref \in [Packets -> 0 .. 1]
      /\ heard \in [Ips -> Macs \cup {None}] /\ cached \in Index
  BY DEF Inv, TypeOK
<1>3. arp_table' = [arp_table EXCEPT ![i] = e]
  BY DEF Query
<1>4. e \in Entries /\ e.state = "PENDING" /\ e.ip = ip /\ e.q = p /\ e.ctime < MaxAge
  <2>1. CASE i \in HoldersOf(ip)
    <3>1. arp_table[i].state = "PENDING" /\ arp_table[i].ip = ip
      BY <1>1, <2>1, Fields DEF Inv, HoldersOf, StableFor
    <3>2. arp_table[i].ctime < MaxAge
      BY <1>1, <3>1 DEF Inv, Young
    <3>3. e = [arp_table[i] EXCEPT !.q = p]
      BY <2>1
    <3>4. arp_table[i] \in Entries
      BY <1>1, <1>2
    <3> HIDE DEF e
    <3> QED BY <3>1, <3>2, <3>3, <3>4 DEF Entries
  <2>2. CASE i \notin HoldersOf(ip)
    <3>1. e = [arp_table[i] EXCEPT !.state = "PENDING", !.ip = ip, !.ctime = 0, !.q = p]
      BY <2>2
    <3>2. arp_table[i] \in Entries
      BY <1>1, <1>2
    <3>3. ip \in Ips /\ MaxAge \in Nat /\ 0 < MaxAge
      BY <1>1, Nats
    <3> HIDE DEF e, ip
    <3>4. /\ "PENDING" \in Stable \cup {"EMPTY", "PENDING"} /\ 0 \in 0 .. MaxAge
          /\ p \in Packets \cup {None}
      BY <3>3
    <3>5. e \in Entries
      BY <3>1, <3>2, <3>3, <3>4, Update DEF Entries
    <3> QED BY <3>1, <3>2, <3>3, <3>5 DEF Entries
  <2> QED BY <2>1, <2>2
<1>5. \A j \in Index : arp_table'[j] = IF j = i THEN e ELSE arp_table[j]
  BY <1>1, <1>2, <1>3
<1> HIDE DEF e
<1>6. ref' \in [Packets -> 0 .. 1] /\ Refs'
  <2>1. \A j \in Index : arp_table[j].q # p
    BY DEF Inv, Refs
  <2>2. Freed(ref, i)[p] = 0
    BY <1>1, <2>1, FreedFacts
  <2>3. ref' = [Freed(ref, i) EXCEPT ![p] = 1]
    BY <1>1, <2>2, FreedFacts DEF Query
  <2> QED BY <1>1, <1>4, <1>5, <2>1, <2>3, FreedFacts DEF Refs
<1>7. TypeOK'
  BY <1>1, <1>2, <1>3, <1>4, <1>6 DEF TypeOK, Query
<1>8. Young' /\ Waits'
  BY <1>4, <1>5 DEF Inv, Young, Waits
<1>9. OneEntryEach'
  <2>1. \A j \in Index : j # i /\ arp_table[j].state # "EMPTY" => arp_table[j].ip # ip
    BY <1>1 DEF HoldersOf, Inv, OneEntryEach
  <2> QED BY <1>4, <1>5, <2>1 DEF Inv, OneEntryEach
<1>10. Known' /\ RightAddress'
  BY <1>4, <1>5 DEF Inv, Known, RightAddress, Query, Stable
<1> QED BY <1>6, <1>7, <1>8, <1>9, <1>10 DEF Inv

\* A packet that cannot be copied leaves an entry without one, or the one
\* that is there.
LEMMA QueryNoCopyInv ==
  ASSUME Inv, NEW ip \in Ips, StableFor(ip) = {},
         NEW i \in FindEntry(ip), QueryNoCopy(i, ip), heard' = heard
  PROVE  Inv'
<1>1. i \in Index /\ (i \in HoldersOf(ip) \/ HoldersOf(ip) = {})
  BY FindEntryFacts, Nats
<1>2. /\ arp_table \in [Index -> Entries] /\ ref \in [Packets -> 0 .. 1]
      /\ heard \in [Ips -> Macs \cup {None}] /\ cached \in Index
      /\ wire' = {} /\ cached' = cached
  BY DEF Inv, TypeOK, QueryNoCopy
<1>3. CASE i \in HoldersOf(ip)
  <2>1. arp_table' = arp_table /\ ref' = ref
    BY <1>3 DEF QueryNoCopy
  <2>2. TypeOK'
    BY <1>2, <2>1 DEF TypeOK
  <2> QED
    BY <1>2, <2>1, <2>2
    DEF Inv, Young, Waits, Refs, Known, OneEntryEach, RightAddress
<1>4. CASE i \notin HoldersOf(ip)
  <2> DEFINE e == [arp_table[i] EXCEPT !.state = "PENDING", !.ip = ip, !.ctime = 0, !.q = None]
  <2>1. arp_table' = [arp_table EXCEPT ![i] = e] /\ ref' = Freed(ref, i)
    BY <1>4 DEF QueryNoCopy
  <2>2. e \in Entries /\ e.state = "PENDING" /\ e.ip = ip /\ e.q = None /\ e.ctime < MaxAge
    <3>1. arp_table[i] \in Entries
      BY <1>1, <1>2
    <3>2. MaxAge \in Nat /\ 0 < MaxAge
      BY Nats
    <3> DEFINE o == arp_table[i]
    <3>3. e = [o EXCEPT !.state = "PENDING", !.ip = ip, !.ctime = 0, !.q = None]
      OBVIOUS
    <3> HIDE DEF e, o
    <3>4. /\ "PENDING" \in Stable \cup {"EMPTY", "PENDING"} /\ 0 \in 0 .. MaxAge
          /\ None \in Packets \cup {None} /\ o \in Entries
      BY <3>1, <3>2 DEF o
    <3>5. e \in Entries
      BY <3>3, <3>4, Update DEF Entries
    <3> QED BY <3>2, <3>3, <3>4, <3>5 DEF Entries
  <2> HIDE DEF e
  <2>3. \A j \in Index : arp_table'[j] = IF j = i THEN e ELSE arp_table[j]
    BY <1>1, <1>2, <2>1
  <2>4. ref' \in [Packets -> 0 .. 1] /\ Refs'
    <3>1. /\ ref' \in [Packets -> 0 .. 1]
          /\ \A p \in Packets :
               ref'[p] = IF \E j \in Index \ {i} : arp_table[j].q = p THEN 1 ELSE 0
      BY <1>1, <2>1, FreedFacts
    <3>2. \A p \in Packets : (\E j \in Index : arp_table'[j].q = p)
                             <=> (\E j \in Index \ {i} : arp_table[j].q = p)
      <4> SUFFICES ASSUME NEW p \in Packets
                   PROVE  (\E j \in Index : arp_table'[j].q = p)
                            <=> (\E j \in Index \ {i} : arp_table[j].q = p)
        OBVIOUS
      <4>1. arp_table'[i].q # p
        BY <1>1, <2>2, <2>3, Nats
      <4>2. \A j \in Index \ {i} : arp_table'[j].q = arp_table[j].q
        BY <2>3
      <4> QED BY <4>1, <4>2
    <3> QED BY <3>1, <3>2 DEF Refs
  <2>5. TypeOK'
    BY <1>1, <1>2, <2>1, <2>2, <2>4 DEF TypeOK
  <2>6. Young' /\ Waits'
    BY <2>2, <2>3 DEF Inv, Young, Waits
  <2>7. OneEntryEach'
    <3>1. \A j \in Index : j # i /\ arp_table[j].state # "EMPTY" => arp_table[j].ip # ip
      BY <1>1, <1>4 DEF HoldersOf
    <3> QED BY <2>2, <2>3, <3>1 DEF Inv, OneEntryEach
  <2>8. Known' /\ RightAddress'
    BY <1>2, <2>2, <2>3 DEF Inv, Known, RightAddress, Stable
  <2> QED BY <2>4, <2>5, <2>6, <2>7, <2>8 DEF Inv
<1> QED BY <1>3, <1>4

\* etharp_output keeps the invariant, on each of its ways.
LEMMA OutputInv ==
  ASSUME Inv, NEW p \in Packets, EtharpOutput(p)
  PROVE  Inv'
<1>1. heard' = heard /\ ref[p] = 0
  BY DEF EtharpOutput
<1>2. CASE Hint(Dst(p)) /\ \E mem \in BOOLEAN : ToIndex(cached, p, mem)
  <2>1. cached \in StableFor(Dst(p))
    <3>1. cached \in Index
      BY DEF Inv, TypeOK
    <3> QED BY <1>2, <3>1 DEF Hint, StableFor, HoldersOf, Stable
  <2> QED BY <1>1, <1>2, <2>1, ToIndexInv
<1>3. CASE \E mem \in BOOLEAN, i \in StableFor(Dst(p)) : ToIndex(i, p, mem)
  BY <1>1, <1>3, ToIndexInv
<1>4. CASE StableFor(Dst(p)) = {} /\ \E i \in FindEntry(Dst(p)) : Query(i, Dst(p), p)
  BY <1>1, <1>4, QueryInv
<1>5. CASE StableFor(Dst(p)) = {} /\ \E i \in FindEntry(Dst(p)) : QueryNoCopy(i, Dst(p))
  <2> DEFINE ip == Dst(p)
  <2>1. ip \in Ips
    BY Nats
  <2> HIDE DEF ip
  <2>2. StableFor(ip) = {} /\ \E i \in FindEntry(ip) : QueryNoCopy(i, ip)
    BY <1>5 DEF ip
  <2> QED BY <1>1, <2>1, <2>2, QueryNoCopyInv
<1> QED BY <1>2, <1>3, <1>4, <1>5 DEF EtharpOutput

-----------------------------------------------------------------------------
\* So does etharp_input, which may send what waits.
LEMMA InputInv ==
  ASSUME Inv, NEW ip \in Ips, NEW mac \in Macs, NEW forUs \in BOOLEAN,
         EtharpInput(ip, mac, forUs)
  PROVE  Inv'
<1>1. /\ arp_table \in [Index -> Entries] /\ ref \in [Packets -> 0 .. 1]
      /\ heard \in [Ips -> Macs \cup {None}] /\ cached' = cached /\ cached \in Index
      /\ heard' = [heard EXCEPT ![ip] = mac]
  BY DEF Inv, TypeOK, EtharpInput
<1>2. heard' \in [Ips -> Macs \cup {None}] /\ heard'[ip] = mac
      /\ \A x \in Ips \ {ip} : heard'[x] = heard[x]
  BY <1>1
<1>3. CASE HoldersOf(ip) = {} /\ wire' = {} /\ UNCHANGED <<arp_table, ref>>
  <2>1. \A i \in Index : arp_table[i].state \in Stable => arp_table[i].ip # ip
    BY <1>3 DEF HoldersOf, Stable
  <2>2. Known'
    BY <1>2, <1>3, <2>1, Fields DEF Inv, Known
  <2>3. TypeOK'
    BY <1>1, <1>2, <1>3 DEF TypeOK
  <2> QED BY <1>3, <2>2, <2>3 DEF Inv, Young, OneEntryEach, Waits, Refs, RightAddress
<1>4. ASSUME NEW i \in FindEntry(ip),
             arp_table' = [arp_table EXCEPT ![i] = Updated(arp_table[i], ip, mac)],
             wire' = IF i \in HoldersOf(ip) /\ arp_table[i].q # None
                     THEN {Frame(arp_table[i].q, mac)} ELSE {},
             ref' = Freed(ref, i)
      PROVE  Inv'
  <2> DEFINE e == Updated(arp_table[i], ip, mac)
  <2>1. i \in Index /\ (i \in HoldersOf(ip) \/ HoldersOf(ip) = {})
    BY FindEntryFacts
  <2>2. /\ e \in Entries /\ e.state = "STABLE" /\ e.ip = ip /\ e.q = None /\ e.mac = mac
        /\ e.ctime = 0
    <3>1. arp_table[i] \in Entries
      BY <1>1, <2>1
    <3>2. e = [arp_table[i] EXCEPT !.state = "STABLE", !.ip = ip, !.ctime = 0, !.q = None,
                                   !.mac = mac]
      BY DEF Updated
    <3> HIDE DEF e
    <3>3. /\ "STABLE" \in Stable \cup {"EMPTY", "PENDING"} /\ 0 \in 0 .. MaxAge
          /\ None \in Packets \cup {None}
      BY Nats DEF Stable
    <3>4. e \in Entries
      BY <3>1, <3>2, <3>3, Update DEF Entries
    <3> QED BY <3>1, <3>2, <3>4 DEF Entries
  <2>3. \A j \in Index : arp_table'[j] = IF j = i THEN e ELSE arp_table[j]
    BY <1>1, <1>4, <2>1
  <2>4. arp_table' \in [Index -> Entries]
    BY <1>1, <1>4, <2>2
  <2> HIDE DEF e
  <2>5. \A j \in Index : j # i /\ arp_table[j].state # "EMPTY" => arp_table[j].ip # ip
    BY <2>1 DEF HoldersOf, Inv, OneEntryEach
  <2>6. ref' \in [Packets -> 0 .. 1] /\ Refs'
    BY <1>4, <2>1, <2>2, <2>3, FreedFacts, Nats DEF Refs
  <2>7. wire' \subseteq [p : Packets, mac : Macs] /\ RightAddress'
    <3>1. CASE wire' = {}
      BY <3>1 DEF RightAddress
    <3>2. CASE i \in HoldersOf(ip) /\ arp_table[i].q # None
      <4>1. arp_table[i].q \in Packets /\ Dst(arp_table[i].q) = ip
        BY <2>1, <3>2, Fields DEF HoldersOf, Inv, Waits
      <4>2. wire' = {[p |-> arp_table[i].q, mac |-> mac]}
        BY <1>4, <3>2 DEF Frame
      <4> QED BY <1>2, <4>1, <4>2 DEF RightAddress
    <3> QED BY <1>4, <3>1, <3>2
  <2>8. TypeOK'
    BY <1>1, <1>2, <2>4, <2>6, <2>7 DEF TypeOK
  <2>9. Young' /\ Waits'
    BY <2>2, <2>3, Nats DEF Inv, Young, Waits
  <2>10. OneEntryEach'
    BY <2>2, <2>3, <2>5 DEF Inv, OneEntryEach
  <2>11. Known'
    BY <1>2, <2>2, <2>3, <2>5, Fields DEF Inv, Known, Stable
  <2> QED BY <2>6, <2>7, <2>8, <2>9, <2>10, <2>11 DEF Inv
<1> QED BY <1>3, <1>4 DEF EtharpInput

\* So does the timer, which frees entries and their packets.
LEMMA TmrInv ==
  ASSUME Inv, EtharpTmr
  PROVE  Inv'
<1>1. /\ arp_table \in [Index -> Entries] /\ ref \in [Packets -> 0 .. 1]
      /\ arp_table' = [i \in Index |-> Aged(arp_table[i])]
      /\ wire' = {} /\ cached' = cached /\ heard' = heard
  BY DEF Inv, TypeOK, EtharpTmr
<1>2. ASSUME NEW i \in Index
      PROVE  /\ Aged(arp_table[i]) \in Entries
             /\ arp_table'[i].ip = arp_table[i].ip /\ arp_table'[i].mac = arp_table[i].mac
             /\ arp_table'[i].q = IF Expires(arp_table[i]) THEN None ELSE arp_table[i].q
             /\ arp_table'[i].state # "EMPTY" =>
                  arp_table[i].state # "EMPTY" /\ arp_table'[i].ctime < MaxAge
             /\ arp_table'[i].state \in Stable => arp_table[i].state \in Stable
             /\ arp_table'[i].q # None =>
                  arp_table[i].q # None /\ arp_table'[i].state = arp_table[i].state
  <2> DEFINE e == arp_table[i]
  <2>1. /\ e \in Entries /\ e.state \in Stable \cup {"EMPTY", "PENDING"}
        /\ e.ctime \in 0 .. MaxAge /\ e.q \in Packets \cup {None}
        /\ e.state # "EMPTY" => e.ctime < MaxAge
        /\ e.q # None => e.state = "PENDING"
    BY Fields DEF Inv, Young, Waits
  <2>2. arp_table'[i] = Aged(e)
    BY <1>1
  <2> HIDE DEF e
  <2>3. CASE e.state = "EMPTY"
    <3>1. Aged(e) = e /\ e.q = None
      BY <2>1, <2>3 DEF Aged
    <3> QED BY <2>1, <2>2, <2>3, <3>1 DEF Stable, e
  <2>4. CASE e.state # "EMPTY" /\ Expires(e)
    <3>1. Aged(e) = [e EXCEPT !.ctime = @ + 1, !.state = "EMPTY", !.q = None]
      BY <2>4 DEF Aged
    <3>2. Aged(e) \in Entries
      <4>1. /\ e.ctime + 1 \in 0 .. MaxAge /\ "EMPTY" \in Stable \cup {"EMPTY", "PENDING"}
            /\ None \in Packets \cup {None}
        BY <2>1, <2>4, Nats
      <4>2. e.ip \in Ips /\ e.mac \in Macs
        BY <2>1 DEF Entries
      <4>3. e \in Entries
        BY <2>1
      <4>4. \A c \in 0 .. MaxAge :
              [e EXCEPT !.ctime = c, !.state = "EMPTY", !.q = None] \in Entries
        BY <4>1, <4>2, <4>3, Update DEF Entries
      <4> QED BY <3>1, <4>1, <4>4
    <3> QED BY <2>1, <2>2, <2>4, <3>1, <3>2 DEF Stable, Entries, e
  <2>5. CASE e.state # "EMPTY" /\ ~Expires(e)
    <3> DEFINE s == CASE e.state = "REREQUESTING_1" -> "REREQUESTING_2"
                      [] e.state = "REREQUESTING_2" -> "STABLE"
                      [] OTHER -> e.state
    <3>1. Aged(e) = [e EXCEPT !.ctime = @ + 1, !.state = s]
      BY <2>5 DEF Aged
    <3>2. e.ctime + 1 < MaxAge
      BY <2>1, <2>5, Nats DEF Expires
    <3>3. /\ s \in Stable \cup {"PENDING"} /\ (s \in Stable => e.state \in Stable)
          /\ (e.state = "PENDING" => s = "PENDING")
      BY <2>1, <2>5 DEF Stable
    <3> HIDE DEF s
    <3>4. Aged(e) \in Entries
      <4>1. e.ctime + 1 \in 0 .. MaxAge /\ s \in Stable \cup {"EMPTY", "PENDING"}
        BY <2>1, <3>2, <3>3, Nats
      <4>2. e.ip \in Ips /\ e.mac \in Macs
        BY <2>1 DEF Entries
      <4>3. e \in Entries /\ None \in Packets \cup {None}
        BY <2>1
      <4>4. \A c \in 0 .. MaxAge : [e EXCEPT !.ctime = c, !.state = s] \in Entries
        BY <4>1, <4>2, <4>3, Update DEF Entries
      <4> QED BY <3>1, <4>1, <4>4
    <3> QED BY <2>1, <2>2, <2>5, <3>1, <3>2, <3>3, <3>4 DEF Entries, e
  <2> QED BY <2>3, <2>4, <2>5
<1>3. Refs' /\ ref' \in [Packets -> 0 .. 1]
  <2>1. ASSUME NEW p \in Packets
        PROVE  ref'[p] = IF \E i \in Index : arp_table'[i].q = p THEN 1 ELSE 0
    <3> DEFINE S == {i \in Index : arp_table[i].q = p /\ Expires(arp_table[i])}
    <3>1. ref'[p] = ref[p] - Cardinality(S)
      BY DEF EtharpTmr
    <3>2. p # None
      BY Nats
    <3>3. CASE S = {}
      <4>1. Cardinality(S) = 0
        BY <3>3, FS_EmptySet
      <4>2. \A i \in Index : arp_table'[i].q = p <=> arp_table[i].q = p
        BY <1>2, <3>2, <3>3
      <4> QED BY <3>1, <4>1, <4>2 DEF Inv, Refs
    <3>4. ASSUME NEW i \in S
          PROVE  ref'[p] = IF \E j \in Index : arp_table'[j].q = p THEN 1 ELSE 0
      <4>1. \A j \in Index : arp_table[j].q = p => j = i
        BY <3>2, OneHolder
      <4>2. S = {i}
        BY <4>1
      <4>3. Cardinality(S) = 1
        BY <4>2, FS_Singleton
      <4>4. ref[p] = 1
        BY DEF Inv, Refs
      <4>5. \A j \in Index : arp_table'[j].q # p
        BY <1>2, <3>2, <4>1
      <4> QED BY <3>1, <4>3, <4>4, <4>5
    <3> QED BY <3>3, <3>4
  <2>2. DOMAIN ref' = Packets /\ ref' = [p \in Packets |-> ref'[p]]
    BY DEF EtharpTmr
  <2> QED BY <2>1, <2>2 DEF Refs
<1>4. TypeOK'
  BY <1>1, <1>2, <1>3 DEF TypeOK, Inv
<1>5. Young' /\ Waits'
  BY <1>2 DEF Inv, Young, Waits
<1>6. OneEntryEach' /\ Known' /\ RightAddress'
  BY <1>1, <1>2 DEF Inv, OneEntryEach, Known, RightAddress
<1> QED BY <1>3, <1>4, <1>5, <1>6 DEF Inv

-----------------------------------------------------------------------------
\* Every step keeps it.
LEMMA NextInv == Inv /\ [Next]_vars => Inv'
<1> SUFFICES ASSUME Inv, [Next]_vars PROVE Inv'
  OBVIOUS
<1>1. ASSUME NEW p \in Packets, EtharpOutput(p) PROVE Inv'
  BY <1>1, OutputInv
<1>2. ASSUME NEW ip \in Ips, NEW mac \in Macs, NEW forUs \in BOOLEAN,
             EtharpInput(ip, mac, forUs)
      PROVE  Inv'
  BY <1>2, InputInv
<1>3. CASE EtharpTmr
  BY <1>3, TmrInv
<1>4. CASE UNCHANGED vars
  BY <1>4 DEF vars, Inv, TypeOK, Young, OneEntryEach, Waits, Known, Refs, RightAddress
<1> QED BY <1>1, <1>2, <1>3, <1>4 DEF Next

\* The invariant holds always.
LEMMA InvAlways == Spec => []Inv
BY InitInv, NextInv, PTL DEF Spec

\* The entry of another neighbour is recycled although its packet waits:
\* then a packet waits in every entry.
LEMMA RecycledWaiting ==
  ASSUME Inv, NEW ip \in Ips, NEW i \in FindEntry(ip), i \notin HoldersOf(ip),
         arp_table[i].q # None
  PROVE  \A j \in Index : arp_table[j].q # None
<1>1. HoldersOf(ip) = {} /\ i \in Index
  BY FindEntryFacts
<1>2. arp_table[i].state = "PENDING"
  BY <1>1 DEF Inv, Waits
<1>3. i \notin Empty
  BY <1>2 DEF Empty
<1>4. Empty = {} /\ i \in Oldest(Recyclable)
  BY <1>1, <1>3 DEF FindEntry, First
<1>5. i \in Recyclable
  BY <1>4 DEF Oldest
<1>6. i \notin {j \in Index : arp_table[j].state \in Stable}
  BY <1>2 DEF Stable
<1>7. i \notin {j \in Index : arp_table[j].state = "PENDING" /\ arp_table[j].q = None}
  OBVIOUS
<1>8. /\ {j \in Index : arp_table[j].state \in Stable} = {}
      /\ {j \in Index : arp_table[j].state = "PENDING" /\ arp_table[j].q = None} = {}
  BY <1>5, <1>6, <1>7 DEF Recyclable
<1> SUFFICES ASSUME NEW j \in Index PROVE arp_table[j].q # None
  OBVIOUS
<1>9. arp_table[j].state \in Stable \cup {"EMPTY", "PENDING"}
  BY Fields DEF Inv
<1> QED BY <1>4, <1>8, <1>9 DEF Empty

\* Which neighbour an entry is for changes only when it is recycled.
LEMMA StepKeepsWaiting ==
  ASSUME Inv, [Next]_vars, NEW i \in Index,
         arp_table[i].q # None, arp_table'[i].ip # arp_table[i].ip
  PROVE  \A j \in Index : arp_table[j].q # None
<1>1. arp_table \in [Index -> Entries]
  BY DEF Inv, TypeOK
<1>2. ASSUME NEW p \in Packets, EtharpOutput(p) PROVE \A j \in Index : arp_table[j].q # None
  <2>1. ASSUME NEW k, NEW mem \in BOOLEAN, ToIndex(k, p, mem) PROVE FALSE
    <3>1. arp_table' = arp_table \/ arp_table' = [arp_table EXCEPT ![k].state = "REREQUESTING_1"]
      BY <2>1 DEF ToIndex
    <3> QED BY <1>1, <3>1 DEF Entries
  <2>2. PICK k \in FindEntry(Dst(p)) : Query(k, Dst(p), p) \/ QueryNoCopy(k, Dst(p))
    BY <1>2, <2>1 DEF EtharpOutput
  <2>3. k = i
    BY <1>1, <2>2 DEF Query, QueryNoCopy
  <2>4. i \notin HoldersOf(Dst(p))
    <3> SUFFICES ASSUME i \in HoldersOf(Dst(p)) PROVE FALSE
      OBVIOUS
    <3>1. \/ arp_table' = [arp_table EXCEPT ![i] = [arp_table[i] EXCEPT !.q = p]]
          \/ arp_table' = arp_table
      BY <2>2, <2>3 DEF Query, QueryNoCopy
    <3> QED BY <1>1, <3>1 DEF Entries
  <2> QED BY <2>2, <2>3, <2>4, RecycledWaiting, Nats
<1>3. ASSUME NEW ip \in Ips, NEW mac \in Macs, NEW forUs \in BOOLEAN,
             EtharpInput(ip, mac, forUs)
      PROVE  \A j \in Index : arp_table[j].q # None
  <2>1. PICK k \in FindEntry(ip) : arp_table' = [arp_table EXCEPT ![k] = Updated(arp_table[k], ip, mac)]
    BY <1>3 DEF EtharpInput
  <2>2. k = i
    BY <1>1, <2>1
  <2>3. arp_table'[i].ip = ip
    BY <1>1, <2>1, <2>2 DEF Updated, Entries
  <2>4. i \notin HoldersOf(ip)
    BY <2>3 DEF HoldersOf
  <2> QED BY <2>1, <2>2, <2>4, RecycledWaiting
<1>4. CASE EtharpTmr
  <2>1. arp_table'[i] = Aged(arp_table[i])
    BY <1>4 DEF EtharpTmr
  <2>2. arp_table[i] \in Entries
    BY <1>1
  <2>3. Aged(arp_table[i]).ip = arp_table[i].ip
    BY <2>2 DEF Aged, Entries
  <2> QED BY <2>1, <2>3
<1>5. CASE UNCHANGED vars
  BY <1>5 DEF vars
<1> QED BY <1>2, <1>3, <1>4, <1>5 DEF Next

(***************************************************************************)
(* etharp_find_entry never makes a second entry for a neighbour, and the   *)
(* references to the packets that wait are exact: none is lost or freed    *)
(* twice, whatever is recycled, replaced, answered or timed out.           *)
(***************************************************************************)
THEOREM EtharpTableSound == Spec => []TableSound
<1>1. Inv => TableSound
  BY DEF Inv, Refs, Waits, RefsExact, TableSound
<1> QED BY <1>1, InvAlways, PTL

(***************************************************************************)
(* A packet goes to the address its neighbour was last heard with, by      *)
(* etharp_cached_entry, by a search of the table, or after it has waited.  *)
(***************************************************************************)
THEOREM EtharpRightAddress == Spec => []RightAddress
<1>1. Inv => RightAddress
  BY DEF Inv
<1> QED BY <1>1, InvAlways, PTL

(***************************************************************************)
(* etharp_find_entry takes an entry whose packet waits away from its       *)
(* neighbour only when a packet waits in every entry of the table.         *)
(***************************************************************************)
THEOREM EtharpWaitingKept == Spec => WaitingKept
<1> DEFINE A == \A i \in Index :
                  (arp_table[i].q # None /\ arp_table'[i].ip # arp_table[i].ip)
                    => \A j \in Index : arp_table[j].q # None
<1>1. Inv /\ [Next]_vars => [A]_vars
  BY StepKeepsWaiting
<1>2. WaitingKept <=> [][A]_vars
  BY DEF WaitingKept
<1> HIDE DEF A
<1> QED BY <1>1, <1>2, InvAlways, PTL DEF Spec
=============================================================================
