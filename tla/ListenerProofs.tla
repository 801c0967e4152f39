---------------------------- MODULE ListenerProofs ----------------------------
(***************************************************************************)
(* Proofs about Listener, for any connections and frames, any caps and any *)
(* number of services and mishaps: no slot leaks and the cap on            *)
(* connections holds; every dropped frame is reported; no text is shown    *)
(* twice unless a save failed; no contact is unheard because of another.   *)
(* Three invariants that do not need each other, one for each thing the    *)
(* threads share with the TUI.                                             *)
(***************************************************************************)
EXTENDS Listener, FiniteSetTheorems, TLAPS

(* The connections whose handlers are at work for service s. *)
Serving(s) == {c \in Conns : conn[c].at = "serving" /\ conn[c].service = s}

Threads ==
    /\ running \subseteq Service /\ published \in 0 .. MaxServices
    /\ live \in [Service -> Nat]
    /\ acceptor \in [Service -> [at : {"accept", "reserve", "spawn"},
                                 conn : Conns \cup {NoOne}, cur : Nat]]
    /\ conn \in [Conns -> [at : {"none", "accepted", "serving", "over"},
                           service : Service \cup {0}, read : Nat]]

(* An accept thread past accept() has a stream of its own service. *)
InHand ==
    \A s \in Service : acceptor[s].at # "accept" =>
        /\ acceptor[s].conn \in Conns
        /\ conn[acceptor[s].conn].at = "accepted"
        /\ conn[acceptor[s].conn].service = s

(* A stream that is open belongs to a service. *)
Handlers ==
    \A c \in Conns : conn[c].at \in {"accepted", "serving"} => conn[c].service \in Service

SlotsInv == Threads /\ InHand /\ Handlers /\ SlotsMatchHandlers

(* What counts as seen was reported; without a service nothing is.                      *)
DropsInv ==
    /\ ui = [at |-> ui.at, batch |-> ui.batch]
    /\ ui.at \in {"idle", "take", "open"}
    /\ drops \in Nat /\ seen \in Nat
    /\ told = seen /\ seen <= drops
    /\ hs = 0 => seen = 0 /\ ui.at = "idle"

(* Unless a save failed, what was shown is opened in memory and on disk. *)
ShownInv ==
    /\ mem = [opened |-> mem.opened, blocked |-> mem.blocked, muted |-> mem.muted]
    /\ disk = [opened |-> disk.opened, blocked |-> disk.blocked, muted |-> disk.muted]
    /\ badSaves \in Nat
    /\ badSaves = 0 => /\ twice = {}
                       /\ shown \subseteq mem.opened \cap disk.opened

-----------------------------------------------------------------------------
(* Slots *)

(* Services count from 1; 0 stands for none. *)
LEMMA ServiceIsNat == Service \subseteq Nat /\ 0 \notin Service
BY ListenerBounds DEF Service

(* Only so many connections are ever seen. *)
LEMMA ServingFinite ==
    ASSUME NEW s
    PROVE  IsFiniteSet(Serving(s)) /\ Cardinality(Serving(s)) \in Nat
<1>1. Serving(s) \subseteq Conns
  BY DEF Serving
<1> QED
  BY <1>1, ListenerBounds, FS_Subset, FS_CardinalityType

(* A step that leaves count, handlers and slot of a service as they are. *)
LEMMA SlotsKept ==
    ASSUME NEW s \in Service, SlotsMatchHandlers, Serving(s)' = Serving(s), live'[s] = live[s],
           acceptor'[s].at = "spawn" <=> acceptor[s].at = "spawn"
    PROVE  /\ live'[s] <= HS_MAX_CONCURRENT_CONNS
           /\ live'[s] = Cardinality(Serving(s)') + (IF acceptor'[s].at = "spawn" THEN 1 ELSE 0)
BY DEF SlotsMatchHandlers, Serving

(* ConnSlot::drop: a handler ends and the count goes down with it. *)
LEMMA HandlerOverKeeps ==
    ASSUME SlotsInv, NEW c \in Conns, conn[c].at = "serving", HandlerOver(c),
           UNCHANGED <<running, acceptor, published>>
    PROVE  SlotsInv'
<1>0. PICK t : t = conn[c].service
  OBVIOUS
<1>1. t \in Service /\ c \in Serving(t)
  BY <1>0, ServiceIsNat DEF SlotsInv, Handlers, Serving
<1>2. /\ conn' = [conn EXCEPT ![c] = Over]
      /\ live' = [live EXCEPT ![t] = @ - 1]
  BY <1>0 DEF HandlerOver
<1>a. conn'[c].at = "over" /\ \A d \in Conns \ {c} : conn'[d] = conn[d]
  BY <1>2 DEF SlotsInv, Threads, Over
<1>3. Serving(t)' = Serving(t) \ {c} /\ \A s \in Service \ {t} : Serving(s)' = Serving(s)
  BY <1>0, <1>a DEF Serving
<1>4. /\ Cardinality(Serving(t)') = Cardinality(Serving(t)) - 1
      /\ Cardinality(Serving(t)') \in Nat
  <2>1. IsFiniteSet(Serving(t)) /\ Cardinality(Serving(t)) \in Nat
    BY ServingFinite
  <2>2. IsFiniteSet(Serving(t) \ {c})
        /\ Cardinality(Serving(t) \ {c}) = Cardinality(Serving(t)) - 1
    BY <1>1, <2>1, FS_RemoveElement
  <2>3. Cardinality(Serving(t) \ {c}) \in Nat
    BY <2>2, FS_CardinalityType
  <2> QED
    BY <1>3, <2>2, <2>3
<1>5. /\ live[t] \in Nat /\ live[t] <= HS_MAX_CONCURRENT_CONNS
      /\ live[t] = Cardinality(Serving(t)) + (IF acceptor[t].at = "spawn" THEN 1 ELSE 0)
  BY <1>1 DEF SlotsInv, Threads, SlotsMatchHandlers, Serving
<1>6. live' \in [Service -> Nat] /\ live'[t] = live[t] - 1
      /\ \A s \in Service \ {t} : live'[s] = live[s]
  <2>1. live[t] - 1 \in Nat
    BY <1>1, <1>4, <1>5, ServingFinite
  <2> QED
    BY <1>1, <1>2, <2>1 DEF SlotsInv, Threads
<1>7. Threads'
  BY <1>2, <1>6 DEF SlotsInv, Threads, Over
<1>8. InHand' /\ Handlers'
  BY <1>2 DEF SlotsInv, Threads, InHand, Handlers, Over
<1>9. SlotsMatchHandlers'
  <2> SUFFICES ASSUME NEW s \in Service
               PROVE  /\ live'[s] <= HS_MAX_CONCURRENT_CONNS
                      /\ live'[s] = Cardinality(Serving(s)')
                                      + (IF acceptor'[s].at = "spawn" THEN 1 ELSE 0)
    BY DEF SlotsMatchHandlers, Serving
  <2>1. CASE s = t
    <3>1. Cardinality(Serving(t)) \in Nat /\ HS_MAX_CONCURRENT_CONNS \in Nat
      BY ListenerBounds, ServingFinite
    <3> QED
      BY <1>4, <1>5, <1>6, <2>1, <3>1
  <2>2. CASE s # t
    BY <1>3, <1>6, <2>2, SlotsKept DEF SlotsInv
  <2> QED
    BY <2>1, <2>2
<1> QED
  BY <1>7, <1>8, <1>9 DEF SlotsInv

(* What the threads do not see: everything but Crash that the TUI does. *)
LEMMA TuiKeepsSlots ==
    ASSUME SlotsInv, UNCHANGED <<acceptor, live, conn>>,
           running' \subseteq Service /\ published' \in 0 .. MaxServices
    PROVE  SlotsInv'
BY DEF SlotsInv, Threads, InHand, Handlers, SlotsMatchHandlers

-----------------------------------------------------------------------------
(* No accept thread runs and nothing is connected. *)
LEMMA InitSlots == Init => SlotsInv
<1> SUFFICES ASSUME Init PROVE SlotsInv
  OBVIOUS
<1>1. Threads
  BY ListenerBounds DEF Init, Threads, Accepting
<1>2. InHand /\ Handlers
  BY DEF Init, InHand, Handlers, Accepting
<1>3. SlotsMatchHandlers
  <2>1. \A s \in Service : live[s] = 0 /\ acceptor[s].at # "spawn"
    BY DEF Init, Accepting
  <2>2. \A s \in Service :
            {c \in Conns : conn[c].at = "serving" /\ conn[c].service = s} = {}
    BY DEF Init
  <2> QED
    <3>1. Cardinality({}) = 0 /\ 0 <= HS_MAX_CONCURRENT_CONNS /\ 0 = 0 + 0
      BY FS_EmptySet, ListenerBounds
    <3> QED
      BY <2>1, <2>2, <3>1 DEF SlotsMatchHandlers
<1> QED
  BY <1>1, <1>2, <1>3 DEF SlotsInv

(* A new stream has no slot yet. *)
LEMMA AcceptKeepsSlots ==
    ASSUME SlotsInv, NEW s \in Service, NEW c \in Conns, Accept(s, c)
    PROVE  SlotsInv'
<1>1. /\ conn' = [conn EXCEPT ![c] = [at |-> "accepted", service |-> s, read |-> 0]]
      /\ acceptor' = [acceptor EXCEPT ![s] = [at |-> "reserve", conn |-> c, cur |-> live[s]]]
      /\ conn[c].at = "none" /\ acceptor[s].at = "accept"
      /\ UNCHANGED <<running, live, published>>
  BY DEF Accept
<1>2. Threads'
  BY <1>1 DEF SlotsInv, Threads
<1>3. InHand'
  <2>1. \A r \in Service \ {s} : acceptor'[r] = acceptor[r]
    BY <1>1 DEF SlotsInv, Threads
  <2>2. acceptor'[s].conn = c /\ conn'[c].at = "accepted" /\ conn'[c].service = s
    BY <1>1 DEF SlotsInv, Threads
  <2>3. \A d \in Conns \ {c} : conn'[d] = conn[d]
    BY <1>1 DEF SlotsInv, Threads
  <2> QED
    BY <1>1, <2>1, <2>2, <2>3 DEF SlotsInv, InHand
<1>4. Handlers'
  BY <1>1 DEF SlotsInv, Threads, Handlers
<1>5. ASSUME NEW r \in Service
      PROVE  Serving(r)' = Serving(r) /\ live'[r] = live[r]
             /\ (acceptor'[r].at = "spawn" <=> acceptor[r].at = "spawn")
  BY <1>1 DEF SlotsInv, Threads, Serving
<1>6. SlotsMatchHandlers'
  BY <1>5, SlotsKept DEF SlotsInv, SlotsMatchHandlers, Serving
<1> QED
  BY <1>2, <1>3, <1>4, <1>6 DEF SlotsInv

(* A stream that is turned away never had a slot. *)
LEMMA RefuseKeepsSlots ==
    ASSUME SlotsInv, NEW s \in Service, Refuse(s)
    PROVE  SlotsInv'
<1>0. PICK c : c = acceptor[s].conn
  OBVIOUS
<1>1. /\ conn' = [conn EXCEPT ![c] = Over]
      /\ acceptor' = [acceptor EXCEPT ![s] = Accepting]
      /\ acceptor[s].at = "reserve"
      /\ UNCHANGED <<running, live, published>>
  BY <1>0 DEF Refuse
<1>2. c \in Conns /\ conn[c].at = "accepted" /\ conn[c].service = s
  BY <1>0, <1>1 DEF SlotsInv, InHand
<1>3. Threads'
  BY <1>1, <1>2 DEF SlotsInv, Threads, Over, Accepting
<1>4. InHand'
  BY <1>1, <1>2 DEF SlotsInv, Threads, InHand, Accepting
<1>5. Handlers'
  BY <1>1 DEF SlotsInv, Threads, Handlers, Over
<1>6. ASSUME NEW r \in Service
      PROVE  Serving(r)' = Serving(r) /\ live'[r] = live[r]
             /\ (acceptor'[r].at = "spawn" <=> acceptor[r].at = "spawn")
  BY <1>1, <1>2 DEF SlotsInv, Threads, Serving, Over, Accepting
<1>7. SlotsMatchHandlers'
  BY <1>6, SlotsKept DEF SlotsInv, SlotsMatchHandlers, Serving
<1> QED
  BY <1>3, <1>4, <1>5, <1>7 DEF SlotsInv

(* The exchange succeeds only on the count it compares with the cap. *)
LEMMA ExchangeKeepsSlots ==
    ASSUME SlotsInv, NEW s \in Service, Exchange(s)
    PROVE  SlotsInv'
<1>1. /\ acceptor[s].at = "reserve" /\ acceptor[s].cur < HS_MAX_CONCURRENT_CONNS
      /\ acceptor[s].cur \in Nat /\ live[s] \in Nat
      /\ UNCHANGED <<running, conn, published>>
  BY DEF Exchange, SlotsInv, Threads
<1>2. CASE live[s] = acceptor[s].cur
  <2>1. /\ live' = [live EXCEPT ![s] = live[s] + 1]
        /\ acceptor' = [acceptor EXCEPT ![s].at = "spawn"]
    BY <1>2 DEF Exchange
  <2>2. Threads' /\ Handlers'
    <3>1. live[s] + 1 \in Nat
      BY <1>1
    <3>2. live' \in [Service -> Nat]
      BY <2>1, <3>1 DEF SlotsInv, Threads
    <3>3. acceptor' \in [Service -> [at : {"accept", "reserve", "spawn"},
                                     conn : Conns \cup {NoOne}, cur : Nat]]
      BY <2>1 DEF SlotsInv, Threads
    <3> QED
      BY <1>1, <3>2, <3>3 DEF SlotsInv, Threads, Handlers
  <2>3. InHand'
    BY <1>1, <2>1 DEF SlotsInv, Threads, InHand
  <2>4. live'[s] = live[s] + 1 /\ acceptor'[s].at = "spawn"
        /\ \A r \in Service \ {s} : live'[r] = live[r] /\ acceptor'[r] = acceptor[r]
    BY <2>1 DEF SlotsInv, Threads
  <2>5. SlotsMatchHandlers'
    <3> SUFFICES ASSUME NEW r \in Service
                 PROVE  /\ live'[r] <= HS_MAX_CONCURRENT_CONNS
                        /\ live'[r] = Cardinality(Serving(r)')
                                        + (IF acceptor'[r].at = "spawn" THEN 1 ELSE 0)
      BY DEF SlotsMatchHandlers, Serving
    <3>1. Serving(r)' = Serving(r) /\ Cardinality(Serving(r)) \in Nat
      BY <1>1, ServingFinite DEF Serving
    <3>2. CASE r = s
      <4>1. live[s] = Cardinality(Serving(s))
        BY <1>1, <3>1, <3>2 DEF SlotsInv, SlotsMatchHandlers, Serving
      <4> QED
        BY <1>1, <1>2, <2>4, <3>1, <3>2, <4>1, ListenerBounds
    <3>3. CASE r # s
      BY <2>4, <3>1, <3>3, SlotsKept DEF SlotsInv
    <3> QED
      BY <3>2, <3>3
  <2> QED
    BY <2>2, <2>3, <2>5 DEF SlotsInv
<1>3. CASE live[s] # acceptor[s].cur
  <2>1. live' = live /\ acceptor' = [acceptor EXCEPT ![s].cur = live[s]]
    BY <1>3 DEF Exchange
  <2>2. Threads' /\ Handlers'
    BY <1>1, <2>1 DEF SlotsInv, Threads, Handlers
  <2>3. InHand'
    BY <1>1, <2>1 DEF SlotsInv, Threads, InHand
  <2>4. ASSUME NEW r \in Service
        PROVE  Serving(r)' = Serving(r) /\ live'[r] = live[r]
               /\ (acceptor'[r].at = "spawn" <=> acceptor[r].at = "spawn")
    BY <1>1, <2>1 DEF SlotsInv, Threads, Serving
  <2>5. SlotsMatchHandlers'
    BY <2>4, SlotsKept DEF SlotsInv, SlotsMatchHandlers, Serving
  <2> QED
    BY <2>2, <2>3, <2>5 DEF SlotsInv
<1> QED
  BY <1>2, <1>3

(* The slot becomes the handler's, or is given back if no thread can be spawned. *)
LEMMA SpawnKeepsSlots ==
    ASSUME SlotsInv, NEW s \in Service, Spawn(s)
    PROVE  SlotsInv'
<1>0. PICK c : c = acceptor[s].conn
  OBVIOUS
<1>1. /\ acceptor[s].at = "spawn" /\ acceptor' = [acceptor EXCEPT ![s] = Accepting]
      /\ \/ conn' = [conn EXCEPT ![c].at = "serving"] /\ live' = live
         \/ conn' = [conn EXCEPT ![c] = Over] /\ live' = [live EXCEPT ![s] = live[s] - 1]
      /\ UNCHANGED <<running, published>>
  BY <1>0 DEF Spawn
<1>2. c \in Conns /\ conn[c].at = "accepted" /\ conn[c].service = s
  BY <1>0, <1>1 DEF SlotsInv, InHand
<1>3. Cardinality(Serving(s)) \in Nat /\ IsFiniteSet(Serving(s)) /\ c \notin Serving(s)
  BY <1>2, ServingFinite DEF Serving
<1>4. live[s] = Cardinality(Serving(s)) + 1 /\ live[s] \in Nat
      /\ live[s] <= HS_MAX_CONCURRENT_CONNS
  BY <1>1, <1>3 DEF SlotsInv, SlotsMatchHandlers, Serving, Threads
<1>5. Threads'
  <2>1. live[s] - 1 \in Nat
    BY <1>3, <1>4
  <2>2. live' \in [Service -> Nat]
    BY <1>1, <2>1 DEF SlotsInv, Threads
  <2>3. conn' \in [Conns -> [at : {"none", "accepted", "serving", "over"},
                             service : Service \cup {0}, read : Nat]]
    <3>1. conn[c].service \in Service \cup {0} /\ conn[c].read \in Nat
      BY <1>2 DEF SlotsInv, Threads
    <3>2. Over \in [at : {"none", "accepted", "serving", "over"},
                    service : Service \cup {0}, read : Nat]
      BY DEF Over
    <3>3. CASE conn' = [conn EXCEPT ![c].at = "serving"]
      BY <1>2, <3>1, <3>3 DEF SlotsInv, Threads
    <3>4. CASE conn' = [conn EXCEPT ![c] = Over]
      BY <1>2, <3>2, <3>4 DEF SlotsInv, Threads
    <3> QED
      BY <1>1, <3>3, <3>4
  <2>4. acceptor' \in [Service -> [at : {"accept", "reserve", "spawn"},
                                   conn : Conns \cup {NoOne}, cur : Nat]]
    BY <1>1 DEF SlotsInv, Threads, Accepting
  <2> QED
    BY <1>1, <2>2, <2>3, <2>4 DEF SlotsInv, Threads
<1>6. InHand'
  BY <1>1, <1>2 DEF SlotsInv, Threads, InHand, Accepting
<1>7. Handlers'
  BY <1>1, <1>2 DEF SlotsInv, Threads, Handlers, Over
<1>8. acceptor'[s].at = "accept" /\ \A r \in Service \ {s} : acceptor'[r] = acceptor[r]
  BY <1>1 DEF SlotsInv, Threads, Accepting
<1>9. ASSUME NEW r \in Service, r # s
      PROVE  Serving(r)' = Serving(r) /\ live'[r] = live[r]
  <2>1. \A d \in Conns \ {c} : conn'[d] = conn[d]
    BY <1>1 DEF SlotsInv, Threads
  <2>2. conn'[c].at = "over" \/ conn'[c].service = s
    BY <1>1, <1>2 DEF SlotsInv, Threads, Over
  <2>3. Serving(r)' = Serving(r)
    BY <1>2, <1>9, <2>1, <2>2 DEF Serving
  <2>4. live'[r] = live[r]
    BY <1>1, <1>9 DEF SlotsInv, Threads
  <2> QED
    BY <2>3, <2>4
<1>10. live'[s] = Cardinality(Serving(s)') /\ live'[s] <= HS_MAX_CONCURRENT_CONNS
  <2>1. CASE conn' = [conn EXCEPT ![c].at = "serving"] /\ live' = live
    <3>1. Serving(s)' = Serving(s) \cup {c}
      BY <1>2, <2>1 DEF SlotsInv, Threads, Serving
    <3>2. Cardinality(Serving(s) \cup {c}) = Cardinality(Serving(s)) + 1
      BY <1>3, FS_AddElement
    <3> QED
      BY <1>4, <2>1, <3>1, <3>2
  <2>2. CASE conn' = [conn EXCEPT ![c] = Over] /\ live' = [live EXCEPT ![s] = live[s] - 1]
    <3>1. Serving(s)' = Serving(s)
      BY <1>2, <2>2 DEF SlotsInv, Threads, Serving, Over
    <3>2. live'[s] = live[s] - 1
      BY <2>2 DEF SlotsInv, Threads
    <3> QED
      BY <1>3, <1>4, <3>1, <3>2, ListenerBounds
  <2> QED
    BY <1>1, <2>1, <2>2
<1>11. SlotsMatchHandlers'
  <2> SUFFICES ASSUME NEW r \in Service
               PROVE  /\ live'[r] <= HS_MAX_CONCURRENT_CONNS
                      /\ live'[r] = Cardinality(Serving(r)')
                                      + (IF acceptor'[r].at = "spawn" THEN 1 ELSE 0)
    BY DEF SlotsMatchHandlers, Serving
  <2>1. CASE r = s
    <3>1. Cardinality(Serving(s)') \in Nat
      BY <1>5, <1>10 DEF Threads
    <3> QED
      BY <1>8, <1>10, <2>1, <3>1
  <2>2. CASE r # s
    BY <1>8, <1>9, <2>2, SlotsKept DEF SlotsInv
  <2> QED
    BY <2>1, <2>2
<1> QED
  BY <1>5, <1>6, <1>7, <1>11 DEF SlotsInv

(* A frame that is read leaves its handler at work. *)
LEMMA ReadKeepsSlots ==
    ASSUME SlotsInv, NEW c \in Conns, conn[c].at = "serving",
           conn' = [conn EXCEPT ![c].read = @ + 1],
           UNCHANGED <<running, acceptor, live, published>>
    PROVE  SlotsInv'
<1>1. Threads' /\ Handlers'
  BY DEF SlotsInv, Threads, Handlers
<1>2. \A d \in Conns : conn'[d].at = conn[d].at /\ conn'[d].service = conn[d].service
  BY DEF SlotsInv, Threads
<1>3. InHand'
  BY <1>2 DEF SlotsInv, InHand
<1>4. \A s : Serving(s)' = Serving(s)
  BY <1>2 DEF Serving
<1>5. SlotsMatchHandlers'
  BY <1>4 DEF SlotsInv, SlotsMatchHandlers, Serving
<1> QED
  BY <1>1, <1>3, <1>5 DEF SlotsInv

(* Nothing of the process is left. *)
LEMMA CrashKeepsSlots ==
    ASSUME SlotsInv, Crash
    PROVE  SlotsInv'
<1>1. /\ running' = {} /\ published' = published
      /\ acceptor' = [s \in Service |-> Accepting] /\ live' = [s \in Service |-> 0]
      /\ conn' = [c \in Conns |-> IF conn[c].at = "none" THEN conn[c] ELSE Over]
  BY DEF Crash
<1>2. Threads'
  BY <1>1 DEF SlotsInv, Threads, Over, Accepting
<1>3. InHand' /\ Handlers'
  BY <1>1 DEF InHand, Handlers, Over, Accepting
<1>4. \A s \in Service : Serving(s)' = {}
  BY <1>1 DEF Serving, Over
<1>5. SlotsMatchHandlers'
  <2>1. \A s \in Service : Serving(s)' = {} /\ live'[s] = 0 /\ acceptor'[s].at # "spawn"
    BY <1>1, <1>4 DEF Accepting
  <2>2. \A s \in Service :
            {c \in Conns : conn'[c].at = "serving" /\ conn'[c].service = s} = {}
    BY <2>1 DEF Serving
  <2>3. \A s \in Service :
            /\ live'[s] <= HS_MAX_CONCURRENT_CONNS
            /\ live'[s] = Cardinality({c \in Conns : conn'[c].at = "serving"
                                                    /\ conn'[c].service = s})
                            + (IF acceptor'[s].at = "spawn" THEN 1 ELSE 0)
    <3>1. Cardinality({}) = 0 /\ 0 <= HS_MAX_CONCURRENT_CONNS /\ 0 = 0 + 0
      BY FS_EmptySet, ListenerBounds
    <3> QED
      BY <2>1, <2>2, <3>1
  <2> QED
    BY <2>3 DEF SlotsMatchHandlers
<1> QED
  BY <1>2, <1>3, <1>5 DEF SlotsInv

(* Every step keeps the slots: the threads' own by the lemmas above, the TUI's untouched. *)
LEMMA NextSlots == SlotsInv /\ [Next]_vars => SlotsInv'
<1> SUFFICES ASSUME SlotsInv, [Next]_vars PROVE SlotsInv'
  OBVIOUS
<1>1. ASSUME NEW c \in Conns, ServeFrame(c) PROVE SlotsInv'
  BY <1>1, HandlerOverKeeps, ReadKeepsSlots DEF ServeFrame
<1>2. ASSUME NEW c \in Conns, HandlerEnds(c) PROVE SlotsInv'
  BY <1>2, HandlerOverKeeps DEF HandlerEnds
<1>3. ASSUME NEW s \in Service, AcceptThread(s) PROVE SlotsInv'
  BY <1>3, AcceptKeepsSlots, RefuseKeepsSlots, ExchangeKeepsSlots, SpawnKeepsSlots
     DEF AcceptThread
<1>4. CASE Crash
  BY <1>4, CrashKeepsSlots
<1>5. CASE Listen
  <2>1. published \in 0 .. MaxServices /\ running \subseteq Service
        /\ published < MaxServices /\ published' = published + 1
        /\ running' = running \cup {published'} /\ UNCHANGED <<acceptor, live, conn>>
    BY <1>5 DEF Listen, StartHiddenService, SlotsInv, Threads
  <2>2. published' \in 0 .. MaxServices /\ published' \in Service
    BY <2>1, ListenerBounds DEF Service
  <2> QED
    BY <2>1, <2>2, TuiKeepsSlots
<1>6. ASSUME UNCHANGED <<running, acceptor, live, conn, published>> PROVE SlotsInv'
  BY <1>6, TuiKeepsSlots DEF SlotsInv, Threads
<1> USE DEF threads
<1>7. CASE Tui
  BY <1>6, <1>7 DEF Tui, BeginDrain, TakeFrame, TellDrops, OpenFrame
<1>8. ASSUME NEW c \in Contact,
             Block(c) \/ Unblock(c) \/ Mute(c) \/ Unmute(c) \/ SelectContact(c)
      PROVE  SlotsInv'
  BY <1>6, <1>8 DEF Block, Unblock, Mute, Unmute, SelectContact, Command
<1>9. CASE Withdraw \/ LockUi \/ Unlock \/ UNCHANGED vars
  BY <1>6, <1>9 DEF Withdraw, LockUi, Unlock, vars
<1> QED
  BY <1>1, <1>2, <1>3, <1>4, <1>5, <1>7, <1>8, <1>9 DEF Next

(* ConnSlot: no slot leaks and no service has more handlers than the cap, whatever ends *)
(* between the load of the count and the exchange.                                      *)
THEOREM SlotsMatch == Spec => []SlotsMatchHandlers
<1>1. SlotsInv => SlotsMatchHandlers
  BY DEF SlotsInv
<1> QED
  BY InitSlots, NextSlots, <1>1, PTL DEF Spec

-----------------------------------------------------------------------------
(* Dropped frames *)

(* Nothing was dropped, seen or told. *)
LEMMA InitDrops == Init => DropsInv
BY DEF Init, DropsInv, Idle

(* A step keeps the counts, and one that ends a drain has told of all drops. *)
LEMMA NextDrops ==
    ASSUME DropsInv, [Next]_vars
    PROVE  /\ DropsInv'
           /\ (ui.at = "take" /\ ui'.at # "take" /\ hs' # 0) => told' = drops
<1> DEFINE Reported == (ui.at = "take" /\ ui'.at # "take" /\ hs' # 0) => told' = drops
<1> USE DEF DropsInv
<1>1. ASSUME NEW c \in Conns, ServeFrame(c) \/ HandlerEnds(c)
      PROVE  DropsInv' /\ Reported
  BY <1>1 DEF ServeFrame, HandlerEnds
<1>2. ASSUME NEW s \in Service, AcceptThread(s) PROVE DropsInv' /\ Reported
  BY <1>2 DEF AcceptThread, Accept, Refuse, Exchange, Spawn
<1>3. CASE BeginDrain
  BY <1>3 DEF BeginDrain
<1>4. CASE TakeFrame
  BY <1>4 DEF TakeFrame
<1>5. CASE TellDrops
  BY <1>5 DEF TellDrops
<1>6. CASE OpenFrame
  BY <1>6 DEF OpenFrame, Idle
<1>7. ASSUME NEW c \in Contact,
             Block(c) \/ Unblock(c) \/ Mute(c) \/ Unmute(c) \/ SelectContact(c)
      PROVE  DropsInv' /\ Reported
  BY <1>7 DEF Block, Unblock, Mute, Unmute, SelectContact, Command
<1>8. CASE Listen
  BY <1>8 DEF Listen, StartHiddenService
<1>9. CASE Withdraw \/ LockUi \/ Crash
  BY <1>9 DEF Withdraw, LockUi, Crash, LetGo, Idle
<1>10. CASE Unlock \/ UNCHANGED vars
  BY <1>10 DEF Unlock, vars
<1> QED
  BY <1>1, <1>2, <1>3, <1>4, <1>5, <1>6, <1>7, <1>8, <1>9, <1>10 DEF Next, Tui

(* When a drain is over the user was told of every frame that was dropped at the full    *)
(* queue of this service, also when the service before it had dropped more.              *)
THEOREM DropsAreReported == Spec => DropsReported
<1>1. DropsInv /\ [Next]_vars
        => [(ui.at = "take" /\ ui'.at # "take" /\ hs' # 0) => told' = drops]_vars
  BY NextDrops
<1>2. DropsInv /\ [Next]_vars => DropsInv'
  BY NextDrops
<1> QED
  BY InitDrops, <1>1, <1>2, PTL DEF Spec, DropsReported

-----------------------------------------------------------------------------
(* Texts *)

(* Nothing was opened or shown. *)
LEMMA InitShown == Init => ShownInv
BY DEF Init, ShownInv

(* A save that did not fail leaves on disk what is in memory. *)
LEMMA SavedOrFailed ==
    ASSUME badSaves \in Nat, Save
    PROVE  /\ badSaves' \in Nat
           /\ disk' = mem' \/ disk' = disk
           /\ badSaves' = 0 => badSaves = 0 /\ disk' = mem'
BY DEF Save

(* A text is shown by OpenFrame only, in the step that opens its frame and saves. *)
LEMMA NextShown == ShownInv /\ [Next]_vars => ShownInv'
<1> SUFFICES ASSUME ShownInv, [Next]_vars PROVE ShownInv'
  OBVIOUS
<1> USE DEF ShownInv, session, history
<1>1. ASSUME NEW c \in Conns, ServeFrame(c) \/ HandlerEnds(c) PROVE ShownInv'
  BY <1>1 DEF ServeFrame, HandlerEnds
<1>2. ASSUME NEW s \in Service, AcceptThread(s) PROVE ShownInv'
  BY <1>2 DEF AcceptThread, Accept, Refuse, Exchange, Spawn
<1>3. CASE BeginDrain \/ TakeFrame \/ TellDrops
  BY <1>3 DEF BeginDrain, TakeFrame, TellDrops
<1>4. CASE OpenFrame
  <2>1. PICK f : f = Head(ui.batch)
    OBVIOUS
  <2>2. CASE Opens(f)
    <3>1. f \notin mem.opened
      BY <2>2 DEF Opens, Verdict
    <3>2. mem' = [mem EXCEPT !.opened = mem.opened \cup {f}] /\ Save
          /\ \/ shown' = shown /\ twice' = twice
             \/ shown' = shown \cup {f} /\ twice' = twice \cup (shown \cap {f})
      BY <1>4, <2>1, <2>2 DEF OpenFrame
    <3>3. /\ mem' = [opened |-> mem'.opened, blocked |-> mem'.blocked, muted |-> mem'.muted]
          /\ mem'.opened = mem.opened \cup {f}
      BY <3>2
    <3> QED
      BY <3>1, <3>2, <3>3, SavedOrFailed
  <2>3. CASE ~Opens(f)
    BY <1>4, <2>1, <2>3 DEF OpenFrame
  <2> QED
    BY <2>2, <2>3
<1>5. ASSUME NEW b, NEW m, mem' = [opened |-> mem.opened, blocked |-> b, muted |-> m], Save,
             UNCHANGED <<shown, twice>>
      PROVE  ShownInv'
  <2>1. /\ mem' = [opened |-> mem'.opened, blocked |-> mem'.blocked, muted |-> mem'.muted]
        /\ mem'.opened = mem.opened
    BY <1>5
  <2> QED
    BY <1>5, <2>1, SavedOrFailed
<1>6. ASSUME NEW c \in Contact, Block(c) PROVE ShownInv'
  BY <1>5, <1>6 DEF Block, Command
<1>7. ASSUME NEW c \in Contact, Unblock(c) \/ Mute(c) \/ Unmute(c) PROVE ShownInv'
  <2>1. PICK b, m : mem' = [opened |-> mem.opened, blocked |-> b, muted |-> m]
    <3>1. CASE Unblock(c)
      <4>1. mem' = [opened |-> mem.opened, blocked |-> mem.blocked \ {c}, muted |-> mem.muted]
        BY <3>1 DEF Unblock
      <4> QED
        BY <4>1
    <3>2. CASE Mute(c)
      <4>1. mem' = [opened |-> mem.opened, blocked |-> mem.blocked, muted |-> mem.muted \cup {c}]
        BY <3>2 DEF Mute
      <4> QED
        BY <4>1
    <3>3. CASE Unmute(c)
      <4>1. mem' = [opened |-> mem.opened, blocked |-> mem.blocked, muted |-> mem.muted \ {c}]
        BY <3>3 DEF Unmute
      <4> QED
        BY <4>1
    <3> QED
      BY <1>7, <3>1, <3>2, <3>3
  <2>2. Save /\ UNCHANGED <<shown, twice>>
    BY <1>7 DEF Unblock, Mute, Unmute, Command
  <2> QED
    BY <1>5, <2>1, <2>2
<1>8. ASSUME NEW c \in Contact, SelectContact(c) PROVE ShownInv'
  BY <1>8 DEF SelectContact, Command
<1>9. CASE Listen
  BY <1>9 DEF Listen
<1>10. CASE LockUi
  BY <1>10, SavedOrFailed DEF LockUi
<1>11. CASE Withdraw \/ Crash \/ Unlock \/ UNCHANGED vars
  BY <1>11 DEF Withdraw, Crash, Unlock, vars
<1> QED
  BY <1>1, <1>2, <1>3, <1>4, <1>6, <1>7, <1>8, <1>9, <1>10, <1>11 DEF Next, Tui

(* A text is shown once, however often its frame comes and whatever crashes, unless a    *)
(* save failed: the ratchet that opened it is on disk before the text is drawn.          *)
THEOREM TextsShownOnce == Spec => []ShownOnce
<1>1. ShownInv => ShownOnce
  BY DEF ShownInv, ShownOnce
<1> QED
  BY InitShown, NextShown, <1>1, PTL DEF Spec

(* A contact's own verdict ends the search only for a frame that is its own. *)
LEMMA OthersAreNoBlock ==
    ASSUME NEW f, NEW c, c # f.from
    PROVE  Verdict(f, c) = "next"
BY DEF Verdict

(* Its sender's ratchet opens a new frame, whoever comes before in the order. *)
LEMMA NewFramesOpen ==
    ASSUME NEW f, f.from \in Contact, f.padded, f.from \notin mem.blocked, f \notin mem.opened
    PROVE  Opens(f)
<1>1. PICK i \in DOMAIN Book : Book[i] = f.from
  BY DEF Contact, Range
<1>2. Verdict(f, Book[i]) = "opens"
  BY <1>1 DEF Verdict
<1>3. \A c : Verdict(f, c) \in {"opens", "next"}
  BY OthersAreNoBlock DEF Verdict
<1> QED
  BY <1>1, <1>2, <1>3 DEF Opens

(* No contact goes unheard because of another: a contact's frame that is drained, well   *)
(* padded and not read before is opened, in whatever order they are tried and whatever   *)
(* failed before it, unless that contact is blocked.                                     *)
THEOREM ContactsAreHeard == Spec => Heard
<1>1. ShownInv /\ [Next]_vars =>
        [\A f \in Frame :
           (f.from \in Contact /\ f.padded /\ ui.at = "open" /\ f = Head(ui.batch) /\ ui' # ui /\ unlocked')
               => (f \in mem'.opened \/ f.from \in mem.blocked)]_vars
  <2> SUFFICES ASSUME ShownInv, [Next]_vars, NEW f \in Frame, f.from \in Contact, f.padded,
                      ui.at = "open", f = Head(ui.batch), ui' # ui, unlocked',
                      f.from \notin mem.blocked
               PROVE  f \in mem'.opened
    OBVIOUS
  <2>1. OpenFrame
    <3>1. ASSUME NEW c \in Conns PROVE ~(ServeFrame(c) \/ HandlerEnds(c))
      BY DEF ServeFrame, HandlerEnds
    <3>2. ASSUME NEW s \in Service PROVE ~AcceptThread(s)
      BY DEF AcceptThread, Accept, Refuse, Exchange, Spawn
    <3>3. ~(BeginDrain \/ TakeFrame \/ TellDrops)
      BY DEF BeginDrain, TakeFrame, TellDrops
    <3>4. ASSUME NEW c \in Contact
          PROVE  ~(Block(c) \/ Unblock(c) \/ Mute(c) \/ Unmute(c) \/ SelectContact(c))
      BY DEF Block, Unblock, Mute, Unmute, SelectContact, Command
    <3>5. ~(Listen \/ Withdraw \/ LockUi \/ Unlock \/ Crash \/ UNCHANGED vars)
      BY DEF Listen, Withdraw, LockUi, Unlock, Crash, vars
    <3> QED
      BY <3>1, <3>2, <3>3, <3>4, <3>5 DEF Next, Tui
  <2>2. CASE f \in mem.opened
    <3>1. mem' = mem \/ mem' = [mem EXCEPT !.opened = @ \cup {f}]
      BY <2>1 DEF OpenFrame
    <3> QED
      BY <2>2, <3>1 DEF ShownInv
  <2>3. CASE f \notin mem.opened
    <3>1. mem' = [mem EXCEPT !.opened = @ \cup {f}]
      BY <2>1, <2>3, NewFramesOpen DEF OpenFrame
    <3> QED
      BY <3>1 DEF ShownInv
  <2> QED
    BY <2>2, <2>3
<1> QED
  BY InitShown, NextShown, <1>1, PTL DEF Spec, Heard

=============================================================================
