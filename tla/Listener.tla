-------------------------------- MODULE Listener --------------------------------
(***************************************************************************)
(* Frames on their way in.  hidden_service.rs runs one accept thread for   *)
(* every onion service that was published and one handler thread for every *)
(* connection; they share a count of the connections in use and a bounded  *)
(* queue with the TUI.  hashchat_tui.rs drains the queue in its own thread *)
(* (drain_incoming), tries each frame against the contacts                 *)
(* (try_decrypt_incoming), saves and shows it.                             *)
(*                                                                         *)
(* A frame is known by who sealed it, its number, whether it names its     *)
(* sender (`named`) or is sealed, and whether what it seals is `padded` as *)
(* the protocol asks.  A contact's ratchet is the set of its frames that   *)
(* were opened: the ratchet opens each frame once (module Ratchet), and no *)
(* frame of another contact.  The program wrote every ratchet the          *)
(* session holds, so the error of one that cannot be read is left out.     *)
(***************************************************************************)
EXTENDS Naturals, Sequences, FiniteSets, SequencesExt

CONSTANTS
    Book,                     \* the contacts, in the order of the session
    Verified,                 \* those of them that are SAS-verified
    Blocked, Muted,           \* whom the user blocked and muted in earlier sessions
    Conns,                    \* connections the onion will see
    Carries,                  \* Carries[c]: the frames written on connection c
    MaxServices,              \* bound: services published, in all sessions
    MaxMishaps,               \* bound: crashes, failed saves, failed spawns
    MaxChanges,               \* bound: commands about contacts
    HS_MAX_CONCURRENT_CONNS,
    HS_INBOUND_QUEUE_CAP,
    MAX_FRAMES_PER_CONN

Contact == Range(Book)
Frame == UNION {Range(Carries[c]) : c \in Conns}
Service == 1 .. MaxServices
NoOne == "none"

ASSUME ListenerBounds ==
    /\ MaxServices \in Nat /\ MaxMishaps \in Nat /\ MaxChanges \in Nat
    /\ HS_MAX_CONCURRENT_CONNS \in Nat \ {0}
    /\ HS_INBOUND_QUEUE_CAP \in Nat \ {0}
    /\ MAX_FRAMES_PER_CONN \in Nat \ {0}
    /\ IsFiniteSet(Conns)
    /\ Book # <<>> /\ Verified \cup Blocked \cup Muted \subseteq Contact
    /\ Blocked \cap Muted = {}
    /\ NoOne \notin Contact

VARIABLES
    running,    \* services whose accept thread runs in this process
    hs,         \* App.hs: the service the TUI holds, 0 for none
    published,  \* services published so far
    acceptor,   \* per service: what its accept thread is doing
    live,       \* per service: the count behind ConnSlot
    drops,      \* of the service in hs: frames dropped at a full queue
    conn,       \* per connection: where it is, on which service
    queue,      \* the channel of the service in hs
    ui,         \* what the TUI thread does: drain_incoming in its steps
    seen,       \* App.hs_drops_seen
    told,       \* history: drops of the present service the user was told of
    mem, disk,  \* the session in memory and in state.enc
    unlocked, selected,
    shown,      \* history: frames whose text was shown
    twice,      \* history: frames whose text was shown again
    badSaves, mishaps, changes

threads == <<running, acceptor, live>>
session == <<mem, disk, unlocked, selected, changes>>
history == <<shown, twice, badSaves>>
vars == <<running, hs, published, acceptor, live, drops, conn, queue, ui,
          seen, told, mem, disk, unlocked, selected, shown, twice, badSaves,
          mishaps, changes>>

Idle == [at |-> "idle", batch |-> <<>>]
Over == [at |-> "over", service |-> 0, read |-> 0]
Accepting == [at |-> "accept", conn |-> NoOne, cur |-> 0]
Session == [opened : SUBSET Frame, blocked : SUBSET Contact, muted : SUBSET Contact]

Init ==
    /\ running = {} /\ hs = 0 /\ published = 0
    /\ acceptor = [s \in Service |-> Accepting]
    /\ live = [s \in Service |-> 0]
    /\ conn = [c \in Conns |-> [at |-> "none", service |-> 0, read |-> 0]]
    /\ drops = 0 /\ queue = <<>> /\ ui = Idle /\ seen = 0 /\ told = 0
    /\ mem = [opened |-> {}, blocked |-> Blocked, muted |-> Muted] /\ disk = mem
    /\ unlocked = TRUE /\ selected = NoOne
    /\ shown = {} /\ twice = {} /\ badSaves = 0 /\ mishaps = 0 /\ changes = 0

Mishap == mishaps < MaxMishaps /\ mishaps' = mishaps + 1

(* The session is written to state.enc; a save that fails leaves the old   *)
(* file, and no caller below does more about it than to say so.            *)
Save == \/ disk' = mem' /\ UNCHANGED <<badSaves, mishaps>>
        \/ Mishap /\ badSaves' = badSaves + 1 /\ UNCHANGED disk

----------------------------------------------------------------------------
(* The accept thread of service s and the handlers of its connections *)

(* listener.incoming() yields a stream, which a peer may have opened while *)
(* the onion was still published; try_reserve_slot loads the count.        *)
Accept(s, c) ==
    /\ s \in running /\ acceptor[s].at = "accept"
    /\ conn[c].at = "none"
    /\ conn' = [conn EXCEPT ![c] = [at |-> "accepted", service |-> s, read |-> 0]]
    /\ acceptor' = [acceptor EXCEPT ![s] = [at |-> "reserve", conn |-> c, cur |-> live[s]]]
    /\ UNCHANGED <<running, live, hs, published, drops, queue, ui, seen, told,
                   session, history, mishaps>>

(* try_reserve_slot: at the cap the stream is closed. *)
Refuse(s) ==
    LET a == acceptor[s] IN
    /\ s \in running /\ a.at = "reserve" /\ a.cur >= HS_MAX_CONCURRENT_CONNS
    /\ conn' = [conn EXCEPT ![a.conn] = Over]
    /\ acceptor' = [acceptor EXCEPT ![s] = Accepting]
    /\ UNCHANGED <<running, live, hs, published, drops, queue, ui, seen, told,
                   session, history, mishaps>>

(* Bug: a plain load and store instead of the exchange. *)
StoreWithoutExchange(s) ==
    LET a == acceptor[s] IN
    /\ s \in running /\ a.at = "reserve" /\ a.cur < HS_MAX_CONCURRENT_CONNS
    /\ live' = [live EXCEPT ![s] = a.cur + 1]
    /\ acceptor' = [acceptor EXCEPT ![s].at = "spawn"]
    /\ UNCHANGED <<running, hs, published, drops, conn, queue, ui, seen,
                   told, session, history, mishaps>>

(* compare_exchange_weak: takes the slot if the count is still the one     *)
(* that was loaded, otherwise looks again at the count it found.           *)
Exchange(s) ==
    LET a == acceptor[s] IN
    /\ s \in running /\ a.at = "reserve" /\ a.cur < HS_MAX_CONCURRENT_CONNS
    /\ IF live[s] = a.cur
       THEN /\ live' = [live EXCEPT ![s] = a.cur + 1]
            /\ acceptor' = [acceptor EXCEPT ![s].at = "spawn"]
       ELSE /\ acceptor' = [acceptor EXCEPT ![s].cur = live[s]]
            /\ UNCHANGED live
    /\ UNCHANGED <<running, hs, published, drops, conn, queue, ui, seen,
                   told, session, history, mishaps>>

(* The handler gets the stream and the slot.  If no thread can be spawned  *)
(* the closure is dropped, and the slot with it.                           *)
Spawn(s) ==
    LET a == acceptor[s] IN
    /\ s \in running /\ a.at = "spawn"
    /\ acceptor' = [acceptor EXCEPT ![s] = Accepting]
    /\ \/ /\ conn' = [conn EXCEPT ![a.conn].at = "serving"]
          /\ UNCHANGED <<live, mishaps>>
       \/ /\ Mishap
          /\ conn' = [conn EXCEPT ![a.conn] = Over]
          /\ live' = [live EXCEPT ![s] = @ - 1]
    /\ UNCHANGED <<running, hs, published, drops, queue, ui, seen, told, session,
                   history>>

(* A handler ends, and ConnSlot::drop gives its slot back. *)
HandlerOver(c) ==
    /\ conn' = [conn EXCEPT ![c] = Over]
    /\ live' = [live EXCEPT ![conn[c].service] = @ - 1]

(* serve_connection: a whole frame was read within its deadlines.  It goes *)
(* to the queue if there is room, is dropped and counted if there is none, *)
(* and ends the handler if the receiver is gone.                           *)
ServeFrame(c) ==
    LET s == conn[c].service
        f == Carries[c][conn[c].read + 1]
    IN  /\ conn[c].at = "serving" /\ s \in running
        /\ conn[c].read < Len(Carries[c]) /\ conn[c].read < MAX_FRAMES_PER_CONN
        /\ IF s # hs
           THEN HandlerOver(c) /\ UNCHANGED <<queue, drops>>
           ELSE /\ conn' = [conn EXCEPT ![c].read = @ + 1]
                /\ UNCHANGED live
                /\ IF Len(queue) < HS_INBOUND_QUEUE_CAP
                   THEN queue' = Append(queue, f) /\ UNCHANGED drops
                   ELSE drops' = drops + 1 /\ UNCHANGED queue
        /\ UNCHANGED <<running, acceptor, hs, published, ui, seen, told,
                       session, history, mishaps>>

(* serve_connection returns: the frame budget is used up, the peer closed, *)
(* a header or body came too late, or its length was zero or too large.    *)
HandlerEnds(c) ==
    /\ conn[c].at = "serving" /\ conn[c].service \in running
    /\ HandlerOver(c)
    /\ UNCHANGED <<running, acceptor, hs, published, drops, queue, ui,
                   seen, told, session, history, mishaps>>

----------------------------------------------------------------------------
(* Publishing and letting go of a service *)

(* The service in hs, its receiver and its drop count are let go.  Nothing *)
(* tells its accept thread or its handlers.                                *)
LetGo == hs' = 0 /\ queue' = <<>> /\ drops' = 0 /\ seen' = 0 /\ told' = 0

(* start_hidden_service_with_key: a listener and its thread, an empty      *)
(* queue and a new drop count.                                             *)
StartHiddenService ==
    /\ published' = published + 1
    /\ running' = running \cup {published'}
    /\ queue' = <<>> /\ drops' = 0

(* listen, once Tor published the onion and the session is saved.  If the  *)
(* save fails the service is dropped again; its thread runs already.       *)
Listen ==
    /\ unlocked /\ ui.at = "idle" /\ hs = 0 /\ published < MaxServices
    /\ StartHiddenService /\ told' = 0
    /\ \/ hs' = published' /\ seen' = 0 /\ disk' = mem /\ UNCHANGED <<badSaves, mishaps>>
       \/ Mishap /\ badSaves' = badSaves + 1 /\ UNCHANGED <<hs, seen, disk>>
    /\ UNCHANGED <<acceptor, live, conn, ui, mem, unlocked, selected,
                   changes, shown, twice>>

(* withdraw_onion_for_bridges, called from the bridge check of each round. *)
Withdraw ==
    /\ ui.at = "idle" /\ hs # 0 /\ LetGo
    /\ UNCHANGED <<threads, published, conn, ui, session, history, mishaps>>

(* lock_ui: saves if it can, lets go of the service and the session. *)
LockUi ==
    /\ ui.at = "idle" /\ unlocked /\ unlocked' = FALSE
    /\ LetGo
    /\ UNCHANGED mem /\ Save
    /\ selected' = NoOne
    /\ UNCHANGED <<threads, published, conn, ui, changes, shown, twice>>

(* The process dies, and every thread and open connection with it. *)
Crash ==
    /\ Mishap /\ unlocked' = FALSE /\ selected' = NoOne
    /\ LetGo /\ ui' = Idle
    /\ running' = {}
    /\ acceptor' = [s \in Service |-> Accepting]
    /\ live' = [s \in Service |-> 0]
    /\ conn' = [c \in Conns |-> IF conn[c].at = "none" THEN conn[c]
                                ELSE Over]
    /\ UNCHANGED <<published, mem, disk, changes, history>>

(* try_unlock opens the session and selects the first contact. *)
Unlock ==
    /\ ~unlocked /\ unlocked' = TRUE /\ mem' = disk
    /\ selected' = Book[1]
    /\ UNCHANGED <<threads, hs, published, drops, conn, queue, ui, seen, told, disk,
                   changes, history, mishaps>>

----------------------------------------------------------------------------
(* drain_incoming *)

(* Each round of the loop. *)
BeginDrain ==
    /\ unlocked /\ ui.at = "idle" /\ hs # 0
    /\ ui' = [ui EXCEPT !.at = "take"]
    /\ UNCHANGED <<threads, hs, published, drops, conn, queue, seen, told, session,
                   history, mishaps>>

(* try_recv, until it finds the queue empty; handlers go on meanwhile. *)
TakeFrame ==
    /\ ui.at = "take" /\ queue # <<>>
    /\ ui' = [ui EXCEPT !.batch = Append(@, Head(queue))]
    /\ queue' = Tail(queue)
    /\ UNCHANGED <<threads, hs, published, drops, conn, seen, told, session, history,
                   mishaps>>

(* Bug: the user is told once for every service. *)
TellFirstDrops ==
    /\ ui.at = "take" /\ queue = <<>>
    /\ IF drops > seen /\ seen = 0
       THEN seen' = drops /\ told' = told + (drops - seen)
       ELSE UNCHANGED <<seen, told>>
    /\ ui' = [ui EXCEPT !.at = IF ui.batch = <<>> THEN "idle" ELSE "open"]
    /\ UNCHANGED <<threads, hs, published, drops, conn, queue, session, history,
                   mishaps>>

(* The user is told how many frames were dropped since the last time. *)
TellDrops ==
    /\ ui.at = "take" /\ queue = <<>>
    /\ IF drops > seen
       THEN seen' = drops /\ told' = told + (drops - seen)
       ELSE UNCHANGED <<seen, told>>
    /\ ui' = [ui EXCEPT !.at = IF ui.batch = <<>> THEN "idle" ELSE "open"]
    /\ UNCHANGED <<threads, hs, published, drops, conn, queue, session, history,
                   mishaps>>

(* The named sender comes first; for a sealed frame the open chat, then    *)
(* the verified contacts, then the others.                                 *)
Band(f, c) ==
    IF f.named THEN (IF c = f.from THEN 0 ELSE 1)
    ELSE CASE c = selected -> 0 [] c # selected /\ c \in Verified -> 1 [] OTHER -> 2

(* inbound_contact_order sorts by band: is i in the book tried before j?   *)
InboundContactOrder(f, i, j) ==
    \/ Band(f, Book[i]) < Band(f, Book[j])
    \/ Band(f, Book[i]) = Band(f, Book[j]) /\ i < j

(* Bug: a blocked contact ends the search for a sealed frame as well. *)
VerdictBlocksAll(f, c) ==
    IF c \in mem.blocked
    THEN "blocked"
    ELSE IF c = f.from /\ f \notin mem.opened THEN "opens" ELSE "next"

(* try_decrypt_incoming looks at one contact: it says "blocked", opens the *)
(* frame, opens it and says "bad padding", or goes on to the next one.     *)
Verdict(f, c) ==
    IF c \in mem.blocked
    THEN (IF f.named /\ c = f.from THEN "blocked" ELSE "next")
    ELSE IF c = f.from /\ f \notin mem.opened
         THEN (IF f.padded THEN "opens" ELSE "bad padding") ELSE "next"

(* The search ends at the first contact that does not go on.               *)
Opens(f) ==
    \E i \in DOMAIN Book :
        /\ Verdict(f, Book[i]) = "opens"
        /\ \A j \in DOMAIN Book :
              InboundContactOrder(f, j, i) => Verdict(f, Book[j]) \in {"opens", "next"}

(* Bug: the ratchet of a received frame is left for the next save. *)
OpenFrameSavesLater ==
    LET f == Head(ui.batch) IN
    /\ ui.at = "open"
    /\ ui' = IF Len(ui.batch) = 1 THEN Idle ELSE [ui EXCEPT !.batch = Tail(@)]
    /\ IF Opens(f)
       THEN /\ mem' = [mem EXCEPT !.opened = @ \cup {f}]
            /\ IF f.from \in mem.muted
               THEN UNCHANGED <<shown, twice>>
               ELSE shown' = shown \cup {f} /\ twice' = twice \cup (shown \cap {f})
       ELSE UNCHANGED <<mem, shown, twice>>
    /\ UNCHANGED <<threads, hs, published, drops, conn, queue, seen, told, unlocked,
                   selected, changes, disk, badSaves, mishaps>>

(* A frame that opens: the ratchet goes back into the session, the session *)
(* is saved, its result ignored, and the text shown unless the contact is  *)
(* muted.  Any other frame is reported and forgotten, and the ratchet that *)
(* opened a badly padded one stays as it was.                              *)
OpenFrame ==
    LET f == Head(ui.batch) IN
    /\ ui.at = "open"
    /\ ui' = IF Len(ui.batch) = 1 THEN Idle ELSE [ui EXCEPT !.batch = Tail(@)]
    /\ IF Opens(f)
       THEN /\ mem' = [mem EXCEPT !.opened = @ \cup {f}]
            /\ Save
            /\ IF f.from \in mem.muted
               THEN UNCHANGED <<shown, twice>>
               ELSE /\ shown' = shown \cup {f}
                    /\ twice' = twice \cup (shown \cap {f})
       ELSE UNCHANGED <<mem, disk, badSaves, mishaps, shown, twice>>
    /\ UNCHANGED <<threads, hs, published, drops, conn, queue, seen, told, unlocked,
                   selected, changes>>

(* The user's commands about contact c.  Blocking ends a mute, and a       *)
(* blocked contact cannot be muted.                                        *)
Command == /\ unlocked /\ ui.at = "idle" /\ changes < MaxChanges /\ changes' = changes + 1
           /\ UNCHANGED <<threads, hs, published, drops, conn, queue, ui, seen, told,
                          unlocked, shown, twice>>

Block(c) ==
    /\ Command
    /\ mem' = [mem EXCEPT !.blocked = @ \cup {c}, !.muted = @ \ {c}]
    /\ Save /\ UNCHANGED selected

Unblock(c) ==
    /\ Command /\ c \in mem.blocked
    /\ mem' = [mem EXCEPT !.blocked = @ \ {c}]
    /\ Save /\ UNCHANGED selected

Mute(c) ==
    /\ Command /\ c \notin mem.blocked
    /\ mem' = [mem EXCEPT !.muted = @ \cup {c}]
    /\ Save /\ UNCHANGED selected

Unmute(c) ==
    /\ Command /\ c \in mem.muted
    /\ mem' = [mem EXCEPT !.muted = @ \ {c}]
    /\ Save /\ UNCHANGED selected

SelectContact(c) ==
    /\ Command /\ selected' = c
    /\ UNCHANGED <<mem, disk, badSaves, mishaps>>

----------------------------------------------------------------------------

Tui == BeginDrain \/ TakeFrame \/ TellDrops \/ OpenFrame

AcceptThread(s) == (\E c \in Conns : Accept(s, c)) \/ Refuse(s) \/ Exchange(s) \/ Spawn(s)

Next ==
    \/ \E c \in Conns : ServeFrame(c) \/ HandlerEnds(c)
    \/ \E s \in Service : AcceptThread(s)
    \/ Tui
    \/ \E c \in Contact : Block(c) \/ Unblock(c) \/ Mute(c) \/ Unmute(c) \/ SelectContact(c)
    \/ Listen \/ Withdraw \/ LockUi \/ Unlock \/ Crash

Spec == Init /\ [][Next]_vars

----------------------------------------------------------------------------
(* Properties *)

(* Type invariant; the queue and the drain belong to a service in hand. *)
TypeOK ==
    /\ running \subseteq Service /\ hs \in {0} \cup running /\ published \in 0 .. MaxServices
    /\ live \in [Service -> Nat] /\ drops \in Nat
    /\ \A c \in Conns : /\ conn[c].at \in {"none", "accepted", "serving", "over"}
                        /\ conn[c].read <= MAX_FRAMES_PER_CONN
    /\ Len(queue) <= HS_INBOUND_QUEUE_CAP
    /\ ui.at \in {"idle", "take", "open"}
    /\ ui.at = "idle" <=> ui = Idle
    /\ ui.at = "open" => ui.batch # <<>>
    /\ (queue # <<>> \/ ui.at # "idle") => hs # 0 /\ unlocked
    /\ seen \in Nat /\ told \in Nat
    /\ mem \in Session /\ disk \in Session
    /\ selected \in Contact \cup {NoOne}

(* ConnSlot: the count is the number of handlers at work plus the slot the *)
(* accept thread holds, so no slot leaks and the cap holds, whatever       *)
(* handler ends between the load and the exchange.                         *)
SlotsMatchHandlers ==
    \A s \in Service :
        /\ live[s] <= HS_MAX_CONCURRENT_CONNS
        /\ live[s] = Cardinality({c \in Conns : conn[c].at = "serving" /\ conn[c].service = s})
                       + (IF acceptor[s].at = "spawn" THEN 1 ELSE 0)

(* drain_incoming: when a drain is over, the user was told of every frame  *)
(* dropped so far at the full queue of this service, also when the one     *)
(* before it had dropped more.                                             *)
DropsReported ==
    [][(ui.at = "take" /\ ui'.at # "take" /\ hs' # 0) => told' = drops]_vars

(* A contact's text is shown once, however often the peer sends it again   *)
(* and whatever crashes, unless a save failed.                             *)
ShownOnce == badSaves = 0 => twice = {}

(* try_decrypt_incoming: a contact's frame that is drained, well padded    *)
(* and not read before is opened, whichever other contacts are blocked or  *)
(* muted, whatever frames fail before it, and in whatever order the        *)
(* contacts are tried, unless its own contact is blocked.                  *)
Heard ==
    [][\A f \in Frame :
         (f.from \in Contact /\ f.padded /\ ui.at = "open" /\ f = Head(ui.batch) /\ ui' # ui /\ unlocked')
             => (f \in mem'.opened \/ f.from \in mem.blocked)]_vars

============================================================================
