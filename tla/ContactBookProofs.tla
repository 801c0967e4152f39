-------------------------- MODULE ContactBookProofs --------------------------
(***************************************************************************)
(* The properties of ContactBook, for every set of links, seeds and        *)
(* onions, every lifetime, any number of contacts, failed saves and        *)
(* crashes.                                                                *)
(*                                                                         *)
(* Whatever fields and signatures are put together to a link, an invite or *)
(* a reply, what the TUI takes from it is an onion with the keys its own   *)
(* service signed (Links).  From that and IInv follows TrustIsEarned,      *)
(* whatever id a record has: trust goes by what was compared.  The other   *)
(* properties need SInv besides: ids are distinct and a new one is fresh,  *)
(* ratchets fit their records, and no ledger has an invite that was closed.*)
(***************************************************************************)
EXTENDS ContactBook, SequenceTheorems, FiniteSetTheorems, WellFoundedInduction, TLAPS

Record(I) == [id : I, who : Owners, compared : SUBSET Owners]

BookIn(contacts) == \E I : contacts \in Seq(Record(I))

EarnedIn(contacts, verified) ==
    \A id \in verified : \E i \in DOMAIN contacts :
        contacts[i].id = id /\ contacts[i].compared = {contacts[i].who}

(* A session has the fields of one. *)
Fields(s) ==
    s = [contacts |-> s.contacts, verified |-> s.verified, blocked |-> s.blocked,
         muted |-> s.muted, ratchets |-> s.ratchets, invites |-> s.invites,
         extreme |-> s.extreme]

Good(s) == Fields(s) /\ BookIn(s.contacts) /\ EarnedIn(s.contacts, s.verified)

(* The same records for the same peers; only what was compared may differ. *)
SameContacts(t, s) ==
    /\ Len(t.contacts) = Len(s.contacts)
    /\ \A j \in 1 .. Len(s.contacts) :
          t.contacts[j].id = s.contacts[j].id /\ t.contacts[j].who = s.contacts[j].who

(* The other fields. *)
SameLists(t, s) ==
    /\ t.blocked = s.blocked /\ t.muted = s.muted
    /\ t.ratchets = s.ratchets /\ t.invites = s.invites

(* A record was added at the end with a fresh id, or the one at `at` is for a new link. *)
Upserted(t, s, who, at) ==
    /\ t.verified \subseteq s.verified /\ SameLists(t, s)
    /\ \/ /\ at = Len(s.contacts) + 1 /\ Len(t.contacts) = at
          /\ t.contacts[at].id = FreshContactId(s)
          /\ t.verified = s.verified \ {FreshContactId(s)}
       \/ (at \in 1 .. Len(s.contacts) /\ Len(t.contacts) = Len(s.contacts))
    /\ t.contacts[at].who = who
    /\ \A j \in 1 .. Len(s.contacts) :
          /\ t.contacts[j].id = s.contacts[j].id
          /\ j # at => t.contacts[j].who = s.contacts[j].who

(* The record at i was removed, with all that is kept about its contact. *)
Removed(t, s, i) ==
    /\ i \in 1 .. Len(s.contacts) /\ Len(t.contacts) = Len(s.contacts) - 1
    /\ \A j \in 1 .. Len(s.contacts) - 1 :
          t.contacts[j] = s.contacts[IF j < i THEN j ELSE j + 1]
    /\ t.verified \subseteq s.verified /\ t.blocked \subseteq s.blocked
    /\ t.muted \subseteq s.muted /\ t.ratchets \subseteq s.ratchets /\ t.invites = s.invites

(* The inductive invariant.  What is in memory and on disk is earned; what waits to be      *)
(* installed is bound; what is selected or about to be deleted is in the book.              *)
IInv ==
    /\ Good(mem) /\ Good(disk)
    /\ installing \subseteq Owners
    /\ selected \in 0 .. Len(mem.contacts)
    /\ staged = 0 \/ staged \in Ids(mem)
    /\ unlocked \/ staged = 0
    /\ shown \subseteq Invites

-----------------------------------------------------------------------------
(* Links *)

(* A binding message names its fields. *)
LEMMA MessagesDiffer ==
    ASSUME NEW o1, NEW e1, NEW x1, NEW o2, NEW e2, NEW x2,
           BindingMessage(o1, e1, x1) = BindingMessage(o2, e2, x2)
    PROVE  o1 = o2 /\ e1 = e2 /\ x1 = x2
BY DEF BindingMessage

(* A binding that was made, or made up, verifies for the profile it is of. *)
LEMMA BindingNamesOwner ==
    ASSUME NEW onion, NEW ed, NEW x, NEW sig, VerifyBinding(onion, ed, x, sig),
           \/ sig = Forged
           \/ \E p \in Owners : sig = SignBinding(p.onion, p.keys, p.keys)
    PROVE  [onion |-> onion, keys |-> ed] \in Owners
<1>1. onion \in Onions /\ sig = Sign(onion, BindingMessage(onion, ed, x))
  BY DEF VerifyBinding, OnionPublicKey, Verify25519
<1>2. sig # Forged
  BY <1>1, LinksAssumption DEF Sign, Forged
<1>3. PICK p \in Owners : sig = SignBinding(p.onion, p.keys, p.keys)
  BY <1>2
<1>4. BindingMessage(onion, ed, x) = BindingMessage(p.onion, p.keys, p.keys)
  BY <1>1, <1>3 DEF Sign, SignBinding
<1>5. onion = p.onion /\ ed = p.keys
  BY <1>4, MessagesDiffer
<1>6. p = [onion |-> p.onion, keys |-> p.keys]
  BY LinksAssumption
<1> QED
  BY <1>3, <1>5, <1>6

(* The bindings there are in contact links. *)
LEMMA ContactBindings ==
    ASSUME NEW hs \in BindingsIn(ContactLinksMade), NEW sig \in hs
    PROVE  \/ sig = Forged
           \/ \E p \in Owners : sig = SignBinding(p.onion, p.keys, p.keys)
<1>1. CASE hs = {Forged}
  BY <1>1
<1>2. ASSUME NEW link \in ContactLinksMade, hs = link.hs
      PROVE  \E p \in Owners : sig = SignBinding(p.onion, p.keys, p.keys)
  <2>1. ASSUME NEW k \in Seeds, NEW o \in Onions
        PROVE  FormatSignedContactLink(k, o).hs = {}
    BY DEF FormatSignedContactLink
  <2>2. PICK p \in Owners : link \in MyContactLink(p)
    BY <1>2, <2>1 DEF ContactLinksMade
  <2>3. link.hs = {SignBinding(p.onion, p.keys, p.keys)}
    BY <2>2 DEF MyContactLink, FormatBoundContactLink, FormatSignedContactLink
  <2> QED
    BY <1>2, <2>3
<1> QED
  BY <1>1, <1>2 DEF BindingsIn

(* The bindings there are in invites. *)
LEMMA InviteBindings ==
    ASSUME NEW hs \in BindingsIn(InvitesMade), NEW sig \in hs
    PROVE  \/ sig = Forged
           \/ \E p \in Owners : sig = SignBinding(p.onion, p.keys, p.keys)
<1>1. CASE hs = {Forged}
  BY <1>1
<1>2. ASSUME NEW link \in InvitesMade, hs = link.hs
      PROVE  \E p \in Owners : sig = SignBinding(p.onion, p.keys, p.keys)
  <2>1. PICK k \in Seeds, o \in Onions, i \in PeerInvites, e \in Expiries :
            link = FormatInvite(k, o, i, e)
    BY <1>2 DEF InvitesMade
  <2>2. link.hs = IF [onion |-> o, keys |-> k] \in Owners THEN {SignBinding(o, k, k)} ELSE {}
    BY <2>1 DEF FormatInvite
  <2>3. [onion |-> o, keys |-> k] \in Owners /\ sig = SignBinding(o, k, k)
    BY <1>2, <2>2
  <2> QED
    BY <2>3
<1> QED
  BY <1>1, <1>2 DEF BindingsIn

(* What is taken of a link that was parsed and is bound, by its binding. *)
LEMMA BoundIsOwner ==
    ASSUME NEW link, NEW read, NEW c \in BoundContact(read),
           \A r \in read : /\ r.onion = link.onion /\ r.ed = link.ed
                           /\ r.bound => link.hs # {}
                           /\ BindingFits(link),
           \A sig \in link.hs : \/ sig = Forged
                                \/ \E p \in Owners : sig = SignBinding(p.onion, p.keys, p.keys)
    PROVE  c \in Owners
<1>1. PICK r \in read : r.bound /\ c = [onion |-> r.onion, keys |-> r.ed]
  BY DEF BoundContact
<1>2. PICK sig \in link.hs : VerifyBinding(link.onion, link.ed, link.x, sig)
  BY <1>1 DEF BindingFits
<1>3. [onion |-> link.onion, keys |-> link.ed] \in Owners
  BY <1>2, BindingNamesOwner
<1> QED
  BY <1>1, <1>3

(* Of any contact link, with fields and signatures of any link that was made, the TUI takes *)
(* nothing or a profile that serves its onion (add_contact_link, audit I-6).                *)
THEOREM LinkedContactsAreOwners ==
    ASSUME NEW link, link.hs \in BindingsIn(ContactLinksMade)
    PROVE  BoundContact(ParseSignedContactLink(link)) \subseteq Owners
<1> SUFFICES ASSUME NEW c \in BoundContact(ParseSignedContactLink(link)) PROVE c \in Owners
  OBVIOUS
<1>1. \A r \in ParseSignedContactLink(link) :
          /\ r.onion = link.onion /\ r.ed = link.ed
          /\ r.bound => link.hs # {}
          /\ BindingFits(link)
  <2> SUFFICES ASSUME NEW r \in ParseSignedContactLink(link)
               PROVE  /\ r.onion = link.onion /\ r.ed = link.ed
                      /\ r.bound => link.hs # {}
                      /\ BindingFits(link)
    OBVIOUS
  <2>1. /\ BindingFits(link)
        /\ r = [onion |-> link.onion, x |-> link.x, ed |-> link.ed, bound |-> link.hs # {}]
    BY Zenon DEF ParseSignedContactLink
  <2>2. r.onion = link.onion /\ r.ed = link.ed /\ (r.bound => link.hs # {})
    BY <2>1, Zenon
  <2> QED
    BY <2>1, <2>2
<1>2. \A sig \in link.hs : \/ sig = Forged
                           \/ \E p \in Owners : sig = SignBinding(p.onion, p.keys, p.keys)
  BY ContactBindings
<1> QED
  BY <1>1, <1>2, BoundIsOwner

(* The same of any invite, whenever it is redeemed. *)
THEOREM InvitedContactsAreOwners ==
    ASSUME NEW link, link.hs \in BindingsIn(InvitesMade), NEW now
    PROVE  BoundContact(ParseInvite(ReadInvite(link), now)) \subseteq Owners
<1> SUFFICES ASSUME NEW c \in BoundContact(ParseInvite(ReadInvite(link), now))
             PROVE  c \in Owners
  OBVIOUS
<1>1. \A r \in ReadInvite(link) :
          /\ r.onion = link.onion /\ r.ed = link.ed
          /\ r.bound => link.hs # {}
          /\ BindingFits(link)
  <2> SUFFICES ASSUME NEW r \in ReadInvite(link)
               PROVE  /\ r.onion = link.onion /\ r.ed = link.ed
                      /\ r.bound => link.hs # {}
                      /\ BindingFits(link)
    OBVIOUS
  <2>1. /\ BindingFits(link)
        /\ r = [onion |-> link.onion, x |-> link.x, ed |-> link.ed, id |-> link.id,
                expires |-> link.expires, bound |-> link.hs # {}]
    BY Zenon DEF ReadInvite
  <2>2. r.onion = link.onion /\ r.ed = link.ed /\ (r.bound => link.hs # {})
    BY <2>1, Zenon
  <2> QED
    BY <2>1, <2>2
<1>2. ParseInvite(ReadInvite(link), now) \subseteq ReadInvite(link)
  BY DEF ParseInvite
<1>3. \A sig \in link.hs : \/ sig = Forged
                           \/ \E p \in Owners : sig = SignBinding(p.onion, p.keys, p.keys)
  BY InviteBindings
<1> QED
  BY <1>1, <1>2, <1>3, BoundIsOwner

(* And of any reply to an invite, be it pasted or come in a frame, also one that has the    *)
(* tag of another link (accept_reply).                                                      *)
THEOREM RepliedContactsAreOwners ==
    ASSUME NEW id, NEW reply, reply.link.hs \in BindingsIn(ContactLinksMade)
    PROVE  AcceptReply(id, reply) \subseteq Owners
BY LinkedContactsAreOwners DEF AcceptReply

(* The contacts of links, invites, replies and hellos are owners. *)
LEMMA TextsNameOwners ==
    /\ ContactsLinked \subseteq Owners
    /\ \A invite \in InvitesRead : \A now : BoundContact(ParseInvite({invite}, now)) \subseteq Owners
    /\ \A id : \A reply \in Replied(id) : reply \subseteq Owners
    /\ \A local, id : \A reply \in Greeted(local, id) : reply \subseteq Owners
<1>1. ContactsLinked \subseteq Owners
  <2> SUFFICES ASSUME NEW link \in ContactTexts
               PROVE  BoundContact(ParseSignedContactLink(link)) \subseteq Owners
    BY DEF ContactsLinked
  <2>1. link.hs \in BindingsIn(ContactLinksMade)
    BY DEF ContactTexts
  <2> QED
    BY <2>1, LinkedContactsAreOwners
<1>2. ASSUME NEW invite \in InvitesRead, NEW now
      PROVE  BoundContact(ParseInvite({invite}, now)) \subseteq Owners
  <2>1. PICK link \in InviteTexts : invite \in ReadInvite(link)
    BY DEF InvitesRead
  <2>2. link.hs \in BindingsIn(InvitesMade)
    BY DEF InviteTexts
  <2>3. BoundContact(ParseInvite(ReadInvite(link), now)) \subseteq Owners
    BY <2>2, InvitedContactsAreOwners
  <2>4. ParseInvite({invite}, now) \subseteq ParseInvite(ReadInvite(link), now)
    BY <2>1 DEF ParseInvite
  <2>5. BoundContact(ParseInvite({invite}, now))
            \subseteq BoundContact(ParseInvite(ReadInvite(link), now))
    BY <2>4 DEF BoundContact
  <2> QED
    BY <2>3, <2>5
<1>3. ASSUME NEW link \in ContactLinksMade PROVE link.hs \in BindingsIn(ContactLinksMade)
  BY DEF BindingsIn
<1>4. ASSUME NEW id, NEW link \in ContactLinksMade, NEW tag
      PROVE  AcceptReply(id, [id |-> id, tag |-> tag, link |-> link]) \subseteq Owners
  <2> DEFINE text == [id |-> id, tag |-> tag, link |-> link]
  <2>1. text.link.hs \in BindingsIn(ContactLinksMade)
    BY <1>3
  <2> HIDE DEF text
  <2>2. AcceptReply(id, text) \subseteq Owners
    BY <2>1, RepliedContactsAreOwners
  <2> QED
    BY <2>2 DEF text
<1>5. ASSUME NEW id, NEW reply \in Replied(id) PROVE reply \subseteq Owners
  <2>1. PICK text \in ReplyTexts(id) : reply = AcceptReply(id, text)
    BY DEF Replied
  <2>2. \E link \in ContactLinksMade :
          \E tag : text = [id |-> id, tag |-> tag, link |-> link]
    BY <2>1 DEF ReplyTexts, FormatInviteReply
  <2> QED
    BY <1>4, <2>1, <2>2
<1>6. ASSUME NEW local, NEW id, NEW reply \in Greeted(local, id) PROVE reply \subseteq Owners
  <2>1. PICK frame \in HelloFrames(id) : reply = AcceptReply(id, frame.reply)
    BY DEF Greeted
  <2>2. PICK k \in Seeds, link \in ContactLinksMade : frame = InviteHelloFrame(k, id, link)
    BY <2>1 DEF HelloFrames
  <2>3. frame.reply = [id |-> id, tag |-> ReplyTag(id, link), link |-> link]
    BY <2>2 DEF InviteHelloFrame, FormatInviteReply
  <2> QED
    BY <1>4, <2>1, <2>3
<1> QED
  BY <1>1, <1>2, <1>5, <1>6

-----------------------------------------------------------------------------
(* Minima and positions *)

(* The least of a set of numbers is in it. *)
LEMMA MinIn ==
    ASSUME NEW S \in SUBSET Nat, S # {}
    PROVE  Min(S) \in S
<1>1. IsWellFoundedOn(OpToRel(<, Nat), Nat)
  BY NatLessThanWellFounded
<1>2. \A x, y \in Nat : <<y, x>> \in OpToRel(<, Nat) <=> y < x
  BY DEF OpToRel
<1>3. PICK x \in S : \A y \in S : ~(<<y, x>> \in OpToRel(<, Nat))
  BY <1>1, WFMin
<1>4. \A y \in S : ~(y < x)
  BY <1>2, <1>3, Zenon
<1>5. \A y \in S : x =< y
  BY <1>4
<1> QED
  BY <1>5 DEF Min

(* What a book is: positions from 1 on, each with an owner. *)
LEMMA Shape ==
    ASSUME NEW contacts, BookIn(contacts)
    PROVE  /\ Len(contacts) \in Nat /\ DOMAIN contacts = 1 .. Len(contacts)
           /\ \A i \in DOMAIN contacts : contacts[i].who \in Owners
           /\ contacts # <<>> => Len(contacts) > 0
<1>1. PICK I : contacts \in Seq(Record(I))
  BY DEF BookIn
<1>2. Len(contacts) \in Nat /\ DOMAIN contacts = 1 .. Len(contacts)
  BY <1>1, LenProperties
<1>3. ASSUME NEW i \in DOMAIN contacts PROVE contacts[i].who \in Owners
  <2>1. contacts[i] \in Record(I)
    BY <1>1, <1>2, ElementOfSeq
  <2> QED
    BY <2>1 DEF Record
<1>4. contacts # <<>> => Len(contacts) > 0
  BY <1>1, EmptySeq
<1> QED
  BY <1>2, <1>3, <1>4

(* The position a link matches is one of the book, or 0. *)
LEMMA MatchIn ==
    ASSUME NEW s, BookIn(s.contacts), NEW who
    PROVE  MatchOf(s, who) \in 0 .. Len(s.contacts)
<1> DEFINE both == {i \in DOMAIN s.contacts : s.contacts[i].who = who}
           either == {i \in DOMAIN s.contacts : \/ s.contacts[i].who.onion = who.onion
                                                \/ s.contacts[i].who.keys = who.keys}
<1>1. Len(s.contacts) \in Nat /\ DOMAIN s.contacts = 1 .. Len(s.contacts)
  BY Shape
<1>2. both \subseteq 1 .. Len(s.contacts) /\ either \subseteq 1 .. Len(s.contacts)
  BY <1>1
<1>3. MatchOf(s, who) = IF both # {} THEN Min(both)
                        ELSE IF either # {} THEN Min(either) ELSE 0
  BY DEF MatchOf
<1> HIDE DEF both, either
<1>4. both # {} => Min(both) \in both
  BY <1>1, <1>2, MinIn
<1>5. either # {} => Min(either) \in either
  BY <1>1, <1>2, MinIn
<1>6. \/ MatchOf(s, who) = 0 \/ MatchOf(s, who) \in both \/ MatchOf(s, who) \in either
  BY <1>3, <1>4, <1>5
<1>7. 0 \in 0 .. Len(s.contacts) /\ 1 .. Len(s.contacts) \subseteq 0 .. Len(s.contacts)
  BY <1>1
<1>8. CASE MatchOf(s, who) = 0
  BY <1>7, <1>8
<1>9. CASE MatchOf(s, who) \in both \/ MatchOf(s, who) \in either
  BY <1>2, <1>7, <1>9
<1> QED
  BY <1>6, <1>8, <1>9

(* A command's contact is in the book. *)
LEMMA ResolvedIn ==
    ASSUME NEW s, BookIn(s.contacts), NEW token
    PROVE  ResolveDenyToken(s, token) \subseteq Ids(s)
<1> DEFINE exact  == {id \in Ids(s) : token.by = "id" /\ id = token.is}
           at     == {i \in DOMAIN s.contacts :
                        token.by = "onion" /\ s.contacts[i].who.onion = token.is}
           begins == {c.id : c \in {c \in Range(s.contacts) :
                         Begins(c.id, token) \/ (token.by = "sas" /\ c.who = token.is)}}
<1>1. exact \subseteq Ids(s)
  OBVIOUS
<1>2. begins \subseteq Ids(s)
  BY DEF Range, Ids
<1>3. at # {} => s.contacts[Min(at)].id \in Ids(s)
  <2>1. at \subseteq DOMAIN s.contacts /\ at \in SUBSET Nat
    BY Shape
  <2>2. at # {} => Min(at) \in at
    BY <2>1, MinIn
  <2> QED
    BY <2>1, <2>2 DEF Ids
<1>4. ResolveDenyToken(s, token) =
          CASE exact # {} -> exact
            [] exact = {} /\ at # {} -> {s.contacts[Min(at)].id}
            [] OTHER -> IF Cardinality(begins) = 1 THEN begins ELSE {}
  BY DEF ResolveDenyToken
<1> HIDE DEF exact, at, begins
<1>5. \/ ResolveDenyToken(s, token) = exact
      \/ at # {} /\ ResolveDenyToken(s, token) = {s.contacts[Min(at)].id}
      \/ ResolveDenyToken(s, token) = begins
      \/ ResolveDenyToken(s, token) = {}
  BY <1>4
<1> QED
  BY <1>1, <1>2, <1>3, <1>5

(* An id of the book has a position. *)
LEMMA PositionOf ==
    ASSUME NEW s, NEW id \in Ids(s)
    PROVE  LET i == CHOOSE i \in DOMAIN s.contacts : s.contacts[i].id = id
           IN  i \in DOMAIN s.contacts /\ s.contacts[i].id = id
BY DEF Ids

-----------------------------------------------------------------------------
(* What the operations of a session keep *)

(* What leaves the contacts and the marks as they are. *)
LEMMA KeepsGood ==
    ASSUME NEW s, Good(s), NEW t, Fields(t), t.contacts = s.contacts, t.verified = s.verified
    PROVE  Good(t)
BY DEF Good

(* Or takes marks off. *)
LEMMA FewerMarks ==
    ASSUME NEW s, Good(s), NEW t, Fields(t), t.contacts = s.contacts,
           t.verified \subseteq s.verified
    PROVE  Good(t)
BY DEF Good, EarnedIn

(* An empty session is good, ... *)
LEMMA NoSessionGood == Good(NoSession)
<1>1. <<>> \in Seq(Record({}))
  BY EmptySeq
<1>2. BookIn(<<>>)
  BY <1>1 DEF BookIn
<1>3. EarnedIn(<<>>, {})
  BY DEF EarnedIn
<1> QED
  BY <1>2, <1>3 DEF Good, NoSession, Fields

(* ... what is saved of a good one, ... *)
LEMMA ForDiskGood ==
    ASSUME NEW s, Good(s)
    PROVE  Good(ForDisk(s))
<1>1. CASE ~s.extreme
  BY <1>1 DEF ForDisk
<1>2. CASE s.extreme
  <2> DEFINE t == [NoSession EXCEPT !.extreme = TRUE]
  <2> DEFINE empty == [contacts : {<<>>}, verified : {{}}, blocked : {{}}, muted : {{}},
                       ratchets : {{}}, invites : {{}}, extreme : BOOLEAN]
  <2>1. NoSession \in empty
    BY DEF NoSession
  <2>2. t \in empty
    BY <2>1
  <2>3. ForDisk(s) = t
    BY <1>2 DEF ForDisk
  <2> HIDE DEF t
  <2>4. Fields(t) /\ t.contacts = NoSession.contacts /\ t.verified = NoSession.verified
    BY <2>1, <2>2 DEF Fields
  <2> QED
    BY <2>3, <2>4, NoSessionGood, KeepsGood
<1> QED
  BY <1>1, <1>2

(* ... one with another ratchet, ... *)
LEMMA SetRatchetGood ==
    ASSUME NEW s, Good(s), NEW id, NEW keys
    PROVE  /\ Good(SetRatchet(s, id, keys))
           /\ SetRatchet(s, id, keys).contacts = s.contacts
<1> DEFINE t == SetRatchet(s, id, keys)
<1>1. Fields(t) /\ t.contacts = s.contacts /\ t.verified = s.verified
  BY DEF SetRatchet, Good, Fields
<1> HIDE DEF t
<1>2. Good(t)
  BY <1>1, KeepsGood
<1> QED
  BY <1>1, <1>2 DEF t

(* ... and one without the invites that are past. *)
LEMMA PurgeGood ==
    ASSUME NEW s, Good(s)
    PROVE  /\ Good(PurgeExpired(s))
           /\ PurgeExpired(s).contacts = s.contacts
<1> DEFINE t == PurgeExpired(s)
           left == {e \in s.invites : time < e.expires}
<1>a. t = [s EXCEPT !.invites = left]
  BY DEF PurgeExpired
<1> HIDE DEF left, t
<1>1. Fields(t) /\ t.contacts = s.contacts /\ t.verified = s.verified
  BY <1>a DEF Good, Fields
<1> HIDE DEF t
<1>2. Good(t)
  BY <1>1, KeepsGood
<1> QED
  BY <1>1, <1>2 DEF t

(* A link installs a record that is not marked, or one marked for just this link. *)
LEMMA UpsertGood ==
    ASSUME NEW s, Good(s), NEW who \in Owners
    PROVE  LET t  == UpsertContactFromLink(s, who)
               at == IF MatchOf(s, who) = 0 THEN Len(s.contacts) + 1 ELSE MatchOf(s, who)
           IN  /\ Good(t)
               /\ at \in 1 .. Len(t.contacts)
               /\ Len(s.contacts) <= Len(t.contacts)
               /\ Ids(s) \subseteq Ids(t)
               /\ Upserted(t, s, who, at)
<1> DEFINE t  == UpsertContactFromLink(s, who)
           i  == MatchOf(s, who)
           id == FreshContactId(s)
           n  == Len(s.contacts)
           new == [id |-> id, who |-> who, compared |-> {}]
<1>1. PICK I : s.contacts \in Seq(Record(I))
  BY DEF Good, BookIn
<1>2. n \in Nat /\ DOMAIN s.contacts = 1 .. n /\ i \in 0 .. n
  BY Shape, MatchIn DEF Good
<1>3. CASE i = 0
  <2>1. /\ t = [s EXCEPT !.contacts = Append(@, new), !.verified = @ \ {id}]
    BY <1>3 DEF UpsertContactFromLink
  <2>2. /\ Fields(t) /\ t.contacts = Append(s.contacts, new)
        /\ t.verified = s.verified \ {id}
    BY <2>1 DEF Good, Fields
  <2> DEFINE J == I \cup {id}
  <2>3. new \in Record(J) /\ Record(I) \subseteq Record(J)
    BY DEF Record
  <2> HIDE DEF t, i, id, n, new, J
  <2>4. s.contacts \in Seq(Record(J))
    BY <1>1, <2>3, SeqMonotonic
  <2>5. /\ t.contacts \in Seq(Record(J)) /\ Len(t.contacts) = n + 1
        /\ \A j \in 1 .. n : t.contacts[j] = s.contacts[j]
    BY <2>2, <2>3, <2>4, <1>2, AppendProperties DEF n
  <2>6. DOMAIN t.contacts = 1 .. n + 1
    BY <2>5, LenProperties
  <2>7. BookIn(t.contacts)
    BY <2>5 DEF BookIn
  <2>8. DOMAIN s.contacts \subseteq DOMAIN t.contacts
    BY <1>2, <2>6
  <2>9. EarnedIn(t.contacts, t.verified)
    <3> SUFFICES ASSUME NEW v \in t.verified
                 PROVE  \E j \in DOMAIN t.contacts :
                           t.contacts[j].id = v /\ t.contacts[j].compared = {t.contacts[j].who}
      BY DEF EarnedIn
    <3>1. v \in s.verified
      BY <2>2
    <3>2. PICK j \in DOMAIN s.contacts :
             s.contacts[j].id = v /\ s.contacts[j].compared = {s.contacts[j].who}
      BY <3>1 DEF EarnedIn, Good
    <3>3. j \in DOMAIN t.contacts /\ t.contacts[j] = s.contacts[j]
      BY <1>2, <2>5, <2>8, <3>2
    <3> QED
      BY <3>2, <3>3
  <2>10. Ids(s) \subseteq Ids(t)
    BY <1>2, <2>5, <2>8 DEF Ids
  <2>11. n + 1 \in 1 .. Len(t.contacts) /\ n <= Len(t.contacts)
    BY <1>2, <2>5
  <2>12. Good(t)
    BY <2>2, <2>7, <2>9 DEF Good
  <2>13. SameLists(t, s)
    BY <2>1 DEF Good, Fields, SameLists
  <2>14. t.contacts[n + 1] = new
    BY <1>2, <2>2, <2>3, <2>4, AppendProperties DEF n
  <2>15. new.id = id /\ new.who = who
    BY DEF new
  <2>16. \A j \in 1 .. n : t.contacts[j] = s.contacts[j]
    BY <2>5
  <2>17. Upserted(t, s, who, n + 1)
    BY <1>2, <2>2, <2>5, <2>13, <2>14, <2>15, <2>16, Zenon DEF Upserted, id, n
  <2>18. UpsertContactFromLink(s, who) = t /\ MatchOf(s, who) = 0 /\ Len(s.contacts) = n
    BY <1>3 DEF t, i, n
  <2> QED
    BY <2>10, <2>11, <2>12, <2>17, <2>18
<1>4. CASE i # 0
  <2> DEFINE c == s.contacts[i]
             d == Relinked(c, who)
             kept == IF c.who = who THEN s.verified ELSE s.verified \ {c.id}
  <2>1. t = [s EXCEPT !.contacts = [s.contacts EXCEPT ![i] = d], !.verified = kept]
    BY <1>4 DEF UpsertContactFromLink, Good, Fields
  <2>2. /\ Fields(t) /\ t.contacts = [s.contacts EXCEPT ![i] = d]
        /\ t.verified = kept
    BY <2>1 DEF Good, Fields
  <2>3. i \in 1 .. n
    BY <1>2, <1>4
  <2>4. c \in Record(I)
    BY <1>1, <2>3, ElementOfSeq
  <2>5. d \in Record(I) /\ d.id = c.id /\ (c.who = who => d = c)
    BY <2>4 DEF Relinked, Record
  <2> HIDE DEF t, i, n, c, d, kept
  <2>6. /\ t.contacts \in Seq(Record(I)) /\ Len(t.contacts) = n
        /\ \A j \in 1 .. n : t.contacts[j] = IF j = i THEN d ELSE s.contacts[j]
    BY <1>1, <2>2, <2>3, <2>5, ExceptSeq DEF n
  <2>7. DOMAIN t.contacts = 1 .. n
    BY <2>6, LenProperties
  <2>8. BookIn(t.contacts)
    BY <2>6 DEF BookIn
  <2>9. EarnedIn(t.contacts, t.verified)
    <3> SUFFICES ASSUME NEW v \in t.verified
                 PROVE  \E j \in DOMAIN t.contacts :
                           t.contacts[j].id = v /\ t.contacts[j].compared = {t.contacts[j].who}
      BY DEF EarnedIn
    <3>1. v \in s.verified /\ (c.who # who => v # c.id)
      BY <2>2 DEF kept
    <3>2. PICK j \in DOMAIN s.contacts :
             s.contacts[j].id = v /\ s.contacts[j].compared = {s.contacts[j].who}
      BY <3>1 DEF EarnedIn, Good
    <3>3. j # i \/ c.who = who
      BY <3>1, <3>2 DEF c
    <3>4. t.contacts[j] = s.contacts[j]
      BY <1>2, <2>5, <2>6, <3>3 DEF c
    <3> QED
      BY <1>2, <2>7, <3>2, <3>4
  <2>10. \A j \in 1 .. n : t.contacts[j].id = s.contacts[j].id
    BY <2>5, <2>6 DEF c
  <2>11. Ids(s) \subseteq Ids(t)
    BY <1>2, <2>7, <2>10 DEF Ids
  <2>12. Good(t)
    BY <2>2, <2>8, <2>9 DEF Good
  <2>13. SameLists(t, s)
    BY <2>1 DEF Good, Fields, SameLists
  <2>14. t.verified \subseteq s.verified
    BY <2>2 DEF kept
  <2>15. d.who = who
    BY <2>4 DEF d, Relinked, Record
  <2>16. \A j \in 1 .. n : j # i => t.contacts[j].who = s.contacts[j].who
    BY <2>6
  <2>17. t.contacts[i].who = who
    BY <2>3, <2>6, <2>15
  <2>18. Upserted(t, s, who, i)
    BY <2>3, <2>6, <2>10, <2>13, <2>14, <2>16, <2>17, Zenon DEF Upserted, n
  <2>19. UpsertContactFromLink(s, who) = t /\ MatchOf(s, who) = i /\ Len(s.contacts) = n
    BY DEF t, i, n
  <2> QED
    BY <1>2, <1>4, <2>3, <2>6, <2>11, <2>12, <2>18, <2>19
<1> QED
  BY <1>3, <1>4

(* A deletion takes the mark with the record. *)
LEMMA DeleteGood ==
    ASSUME NEW s, Good(s), NEW id \in Ids(s)
    PROVE  LET t == DeleteContactSecure(s, id)
               i == CHOOSE i \in DOMAIN s.contacts : s.contacts[i].id = id
           IN  Good(t) /\ Removed(t, s, i)
<1> DEFINE t == DeleteContactSecure(s, id)
           i == CHOOSE i \in DOMAIN s.contacts : s.contacts[i].id = id
           n == Len(s.contacts)
           front == SubSeq(s.contacts, 1, i - 1)
           back == SubSeq(s.contacts, i + 1, n)
<1>1. PICK I : s.contacts \in Seq(Record(I))
  BY DEF Good, BookIn
<1>2. n \in Nat /\ DOMAIN s.contacts = 1 .. n
  BY Shape DEF Good
<1>3. i \in 1 .. n /\ s.contacts[i].id = id
  BY <1>2, PositionOf
<1> DEFINE ratchets == {r \in s.ratchets : r.id # id}
           blocked == s.blocked \ {id}
           muted == s.muted \ {id}
           verified == s.verified \ {id}
<1>a. t = [s EXCEPT !.contacts = RemoveAt(@, i), !.ratchets = ratchets, !.blocked = blocked,
                    !.muted = muted, !.verified = verified]
  BY DEF DeleteContactSecure
<1>b. RemoveAt(s.contacts, i) = front \o back
  BY DEF RemoveAt
<1> HIDE DEF t, i, n, ratchets, blocked, muted, verified, front, back
<1>4. /\ Fields(t) /\ t.contacts = front \o back
      /\ t.verified = verified
  BY <1>a, <1>b DEF Good, Fields
<1>5. \A j \in 1 .. n : s.contacts[j] \in Record(I)
  BY <1>1, ElementOfSeq DEF n
<1>6. /\ front \in Seq(Record(I)) /\ Len(front) = i - 1
      /\ \A j \in 1 .. i - 1 : front[j] = s.contacts[j]
  <2>1. 1 \in Int /\ i - 1 \in Int /\ \A j \in 1 .. i - 1 : s.contacts[j] \in Record(I)
    BY <1>2, <1>3, <1>5
  <2>2. /\ front \in Seq(Record(I))
        /\ Len(front) = IF 1 <= i - 1 THEN i - 1 - 1 + 1 ELSE 0
        /\ \A j \in 1 .. i - 1 - 1 + 1 : front[j] = s.contacts[1 + j - 1]
    BY <2>1, SubSeqProperties DEF front
  <2> QED
    BY <1>2, <1>3, <2>2
<1>7. /\ back \in Seq(Record(I)) /\ Len(back) = n - i
      /\ \A j \in 1 .. n - i : back[j] = s.contacts[i + j]
  <2>1. i + 1 \in Int /\ n \in Int /\ \A j \in i + 1 .. n : s.contacts[j] \in Record(I)
    BY <1>2, <1>3, <1>5
  <2>2. /\ back \in Seq(Record(I))
        /\ Len(back) = IF i + 1 <= n THEN n - (i + 1) + 1 ELSE 0
        /\ \A j \in 1 .. n - (i + 1) + 1 : back[j] = s.contacts[i + 1 + j - 1]
    BY <2>1, SubSeqProperties DEF back
  <2>3. /\ n - (i + 1) + 1 = n - i /\ (~(i + 1 <= n) => n - i = 0)
        /\ \A j \in 1 .. n - i : i + 1 + j - 1 = i + j
    BY <1>2, <1>3
  <2> QED
    BY <2>2, <2>3
<1>8. /\ t.contacts \in Seq(Record(I)) /\ Len(t.contacts) = n - 1
      /\ \A j \in 1 .. n - 1 : t.contacts[j] = IF j <= i - 1 THEN front[j] ELSE back[j - (i - 1)]
  <2>1. /\ front \o back \in Seq(Record(I)) /\ Len(front \o back) = Len(front) + Len(back)
        /\ \A j \in 1 .. Len(front) + Len(back) :
              (front \o back)[j] = IF j <= Len(front) THEN front[j] ELSE back[j - Len(front)]
    BY <1>6, <1>7, ConcatProperties
  <2>2. Len(front) + Len(back) = n - 1 /\ Len(front) = i - 1
    BY <1>2, <1>3, <1>6, <1>7
  <2> QED
    BY <1>4, <2>1, <2>2
<1>9. DOMAIN t.contacts = 1 .. n - 1
  BY <1>8, LenProperties
<1>10. \A j \in 1 .. n : j # i =>
          \E k \in 1 .. n - 1 : t.contacts[k] = s.contacts[j]
  <2> SUFFICES ASSUME NEW j \in 1 .. n, j # i
               PROVE  \E k \in 1 .. n - 1 : t.contacts[k] = s.contacts[j]
    OBVIOUS
  <2>1. CASE j < i
    <3>1. j \in 1 .. n - 1 /\ j <= i - 1 /\ j \in 1 .. i - 1
      BY <1>2, <1>3, <2>1
    <3>2. t.contacts[j] = s.contacts[j]
      BY <1>6, <1>8, <3>1
    <3> QED
      BY <3>1, <3>2
  <2>2. CASE j > i
    <3>1. j - 1 \in 1 .. n - 1 /\ ~(j - 1 <= i - 1) /\ j - i \in 1 .. n - i
          /\ j - 1 - (i - 1) = j - i /\ i + (j - i) = j
      BY <1>2, <1>3, <2>2
    <3>2. t.contacts[j - 1] = back[j - i]
      BY <1>8, <3>1
    <3>3. back[j - i] = s.contacts[j]
      BY <1>7, <3>1
    <3> QED
      BY <3>1, <3>2, <3>3
  <2> QED
    BY <1>2, <1>3, <2>1, <2>2
<1>11. EarnedIn(t.contacts, t.verified)
  <2> SUFFICES ASSUME NEW v \in t.verified
               PROVE  \E k \in DOMAIN t.contacts :
                         t.contacts[k].id = v /\ t.contacts[k].compared = {t.contacts[k].who}
    BY DEF EarnedIn
  <2>1. v \in s.verified /\ v # id
    BY <1>4 DEF verified
  <2>2. PICK j \in DOMAIN s.contacts :
           s.contacts[j].id = v /\ s.contacts[j].compared = {s.contacts[j].who}
    BY <2>1 DEF EarnedIn, Good
  <2>3. j # i
    BY <1>3, <2>1, <2>2
  <2>4. j \in 1 .. n
    BY <1>2, <2>2
  <2>5. PICK k \in 1 .. n - 1 : t.contacts[k] = s.contacts[j]
    BY <1>10, <2>3, <2>4
  <2> QED
    BY <1>9, <2>2, <2>5
<1>12. Good(t)
  BY <1>4, <1>8, <1>11 DEF Good, BookIn
<1>13. \A j \in 1 .. n - 1 : t.contacts[j] = s.contacts[IF j < i THEN j ELSE j + 1]
  <2> SUFFICES ASSUME NEW j \in 1 .. n - 1
               PROVE  t.contacts[j] = s.contacts[IF j < i THEN j ELSE j + 1]
    OBVIOUS
  <2>1. CASE j < i
    <3>1. j <= i - 1 /\ j \in 1 .. i - 1
      BY <1>2, <1>3, <2>1
    <3> QED
      BY <1>6, <1>8, <2>1, <3>1
  <2>2. CASE ~(j < i)
    <3>1. ~(j <= i - 1) /\ j - (i - 1) \in 1 .. n - i /\ i + (j - (i - 1)) = j + 1
      BY <1>2, <1>3, <2>2
    <3> QED
      BY <1>7, <1>8, <2>2, <3>1
  <2> QED
    BY <2>1, <2>2
<1>14. /\ t.verified \subseteq s.verified /\ t.blocked \subseteq s.blocked
       /\ t.muted \subseteq s.muted /\ t.ratchets \subseteq s.ratchets /\ t.invites = s.invites
  <2>1. verified \subseteq s.verified /\ blocked \subseteq s.blocked /\ muted \subseteq s.muted
        /\ ratchets \subseteq s.ratchets
    BY DEF verified, blocked, muted, ratchets
  <2> QED
    BY <1>a, <2>1 DEF Good, Fields
<1>15. Removed(t, s, i)
  BY <1>3, <1>8, <1>13, <1>14, Zenon DEF Removed, n
<1> QED
  BY <1>12, <1>15 DEF t, i

(* Marking a contact records what was compared. *)
LEMMA VerifyGood ==
    ASSUME NEW s, Good(s), NEW id \in Ids(s)
    PROVE  LET i == CHOOSE i \in DOMAIN s.contacts : s.contacts[i].id = id
               t == [s EXCEPT !.verified = @ \cup {id}, !.contacts[i].compared = {s.contacts[i].who}]
           IN  Good(t) /\ SameContacts(t, s) /\ SameLists(t, s)
<1> DEFINE i == CHOOSE i \in DOMAIN s.contacts : s.contacts[i].id = id
           t == [s EXCEPT !.verified = @ \cup {id}, !.contacts[i].compared = {s.contacts[i].who}]
           n == Len(s.contacts)
           c == s.contacts[i]
           d == [c EXCEPT !.compared = {c.who}]
           marks == s.verified \cup {id}
<1>1. PICK I : s.contacts \in Seq(Record(I))
  BY DEF Good, BookIn
<1>2. n \in Nat /\ DOMAIN s.contacts = 1 .. n
  BY Shape DEF Good
<1>3. i \in 1 .. n /\ s.contacts[i].id = id
  BY <1>2, PositionOf
<1>4. t = [s EXCEPT !.verified = marks, !.contacts = [s.contacts EXCEPT ![i] = d]]
  BY DEF Good, Fields
<1> HIDE DEF t, i, n, marks
<1>5. Fields(t) /\ t.contacts = [s.contacts EXCEPT ![i] = d] /\ t.verified = marks
  BY <1>4 DEF Good, Fields
<1>6. c \in Record(I)
  BY <1>1, <1>3, ElementOfSeq DEF n
<1>7. d \in Record(I) /\ d.id = c.id /\ d.who = c.who /\ d.compared = {d.who}
  BY <1>6 DEF Record
<1> HIDE DEF c, d
<1>8. /\ t.contacts \in Seq(Record(I)) /\ Len(t.contacts) = n
      /\ \A j \in 1 .. n : t.contacts[j] = IF j = i THEN d ELSE s.contacts[j]
  BY <1>1, <1>3, <1>5, <1>7, ExceptSeq DEF n
<1>9. DOMAIN t.contacts = 1 .. n
  BY <1>8, LenProperties
<1>10. EarnedIn(t.contacts, t.verified)
  <2> SUFFICES ASSUME NEW v \in t.verified
               PROVE  \E j \in DOMAIN t.contacts :
                         t.contacts[j].id = v /\ t.contacts[j].compared = {t.contacts[j].who}
    BY DEF EarnedIn
  <2>1. CASE v = id
    <3>1. t.contacts[i].id = id /\ t.contacts[i].compared = {t.contacts[i].who}
      BY <1>3, <1>7, <1>8 DEF c
    <3> QED
      BY <1>3, <1>9, <2>1, <3>1
  <2>2. CASE v # id
    <3>1. v \in s.verified
      BY <1>5, <2>2 DEF marks
    <3>2. PICK j \in DOMAIN s.contacts :
             s.contacts[j].id = v /\ s.contacts[j].compared = {s.contacts[j].who}
      BY <3>1 DEF EarnedIn, Good
    <3>3. j # i /\ j \in 1 .. n
      BY <1>2, <1>3, <2>2, <3>2
    <3>4. t.contacts[j] = s.contacts[j]
      BY <1>8, <3>3
    <3> QED
      BY <1>9, <3>2, <3>3, <3>4
  <2> QED
    BY <2>1, <2>2
<1>11. Good(t)
  BY <1>5, <1>8, <1>10 DEF Good, BookIn
<1>12. SameLists(t, s)
  BY <1>4 DEF Good, Fields, SameLists
<1>13. \A j \in 1 .. n : t.contacts[j].id = s.contacts[j].id /\ t.contacts[j].who = s.contacts[j].who
  BY <1>7, <1>8 DEF c
<1>14. SameContacts(t, s)
  BY <1>8, <1>13 DEF SameContacts, n
<1> QED
  BY <1>11, <1>12, <1>14 DEF t, n, i

(* Taking marks off clears what was compared for the others, and for them only. *)
LEMMA UnverifyGood ==
    ASSUME NEW s, Good(s), NEW left, left \subseteq s.verified
    PROVE  LET t == [s EXCEPT !.verified = left,
                              !.contacts = [i \in DOMAIN @ |->
                                               IF @[i].id \in left THEN @[i]
                                               ELSE [@[i] EXCEPT !.compared = {}]]]
           IN  Good(t) /\ SameContacts(t, s) /\ SameLists(t, s)
<1> DEFINE book == [i \in DOMAIN s.contacts |-> IF s.contacts[i].id \in left THEN s.contacts[i]
                                                ELSE [s.contacts[i] EXCEPT !.compared = {}]]
           t == [s EXCEPT !.verified = left, !.contacts = book]
           n == Len(s.contacts)
<1>1. PICK I : s.contacts \in Seq(Record(I))
  BY DEF Good, BookIn
<1>2. n \in Nat /\ DOMAIN s.contacts = 1 .. n
  BY Shape DEF Good
<1>3. \A i \in 1 .. n : book[i] \in Record(I)
  <2> SUFFICES ASSUME NEW i \in 1 .. n PROVE book[i] \in Record(I)
    OBVIOUS
  <2>1. s.contacts[i] \in Record(I)
    BY <1>1, ElementOfSeq
  <2>2. [s.contacts[i] EXCEPT !.compared = {}] \in Record(I)
    BY <2>1 DEF Record
  <2> QED
    BY <1>2, <2>1, <2>2
<1>4. book \in [1 .. n -> Record(I)]
  <2>1. book = [i \in 1 .. n |-> book[i]]
    BY <1>2
  <2> HIDE DEF book
  <2> QED
    BY <1>3, <2>1
<1>5. \A i \in 1 .. n : s.contacts[i].id \in left => book[i] = s.contacts[i]
  BY <1>2
<1>b. \A i \in 1 .. n : book[i].id = s.contacts[i].id /\ book[i].who = s.contacts[i].who
  <2> SUFFICES ASSUME NEW i \in 1 .. n
               PROVE  book[i].id = s.contacts[i].id /\ book[i].who = s.contacts[i].who
    OBVIOUS
  <2>1. s.contacts[i] \in Record(I)
    BY <1>1, ElementOfSeq
  <2>2. book[i] = s.contacts[i] \/ book[i] = [s.contacts[i] EXCEPT !.compared = {}]
    BY <1>2
  <2> HIDE DEF book
  <2> QED
    BY <2>1, <2>2 DEF Record
<1>6. [s EXCEPT !.verified = left,
                !.contacts = [i \in DOMAIN @ |-> IF @[i].id \in left THEN @[i]
                                                 ELSE [@[i] EXCEPT !.compared = {}]]] = t
  OBVIOUS
<1> HIDE DEF book, n
<1>7. book \in Seq(Record(I)) /\ Len(book) = n
  BY <1>2, <1>4
<1>a. t = [s EXCEPT !.verified = left, !.contacts = book]
  OBVIOUS
<1> HIDE DEF t
<1>8. Fields(t) /\ t.contacts = book /\ t.verified = left
  BY <1>a DEF Good, Fields
<1>9. EarnedIn(book, left)
  <2> SUFFICES ASSUME NEW v \in left
               PROVE  \E j \in DOMAIN book : book[j].id = v /\ book[j].compared = {book[j].who}
    BY DEF EarnedIn
  <2>1. PICK j \in DOMAIN s.contacts :
           s.contacts[j].id = v /\ s.contacts[j].compared = {s.contacts[j].who}
    BY DEF EarnedIn, Good
  <2>2. book[j] = s.contacts[j] /\ j \in DOMAIN book
    BY <1>2, <1>4, <1>5, <2>1
  <2> QED
    BY <2>1, <2>2
<1>10. Good(t)
  BY <1>7, <1>8, <1>9 DEF Good, BookIn
<1>11. SameLists(t, s)
  BY <1>a DEF Good, Fields, SameLists
<1>12. SameContacts(t, s)
  BY <1>b, <1>7, <1>8 DEF SameContacts, n
<1> QED
  BY <1>6, <1>10, <1>11, <1>12

-----------------------------------------------------------------------------
(* The steps *)

(* A save leaves something good on disk, ... *)
LEMMA PersistGood ==
    ASSUME NEW s, Good(s), Good(disk), Persist(s)
    PROVE  Good(disk')
BY ForDiskGood DEF Persist

(* ... also one that closes invites. *)
LEMMA PersistClosingGood ==
    ASSUME NEW s, Good(s), Good(disk), NEW ids, PersistClosing(s, ids)
    PROVE  Good(disk')
BY ForDiskGood DEF PersistClosing

(* Installing a link keeps what the first invariant says. *)
LEMMA InstallGood ==
    ASSUME IInv, NEW who \in Owners, InstallContact(who)
    PROVE  /\ Good(mem') /\ Good(disk')
           /\ selected' \in 0 .. Len(mem'.contacts)
           /\ Ids(mem) \subseteq Ids(mem')
<1> DEFINE at == IF MatchOf(mem, who) = 0 THEN Len(mem.contacts) + 1 ELSE MatchOf(mem, who)
           s  == UpsertContactFromLink(mem, who)
<1>1. Good(mem) /\ Good(disk) /\ selected \in 0 .. Len(mem.contacts)
  BY DEF IInv
<1>2. /\ Good(s) /\ at \in 1 .. Len(s.contacts)
      /\ Len(mem.contacts) <= Len(s.contacts) /\ Ids(mem) \subseteq Ids(s)
  BY <1>1, UpsertGood
<1>3. mem' = SetRatchet(s, s.contacts[at].id, who.keys)
  BY DEF InstallContact
<1>4. \/ disk' = ForDisk(mem') /\ selected' = at
      \/ disk' = disk /\ selected' = selected
  BY DEF InstallContact
<1> HIDE DEF at, s
<1>5. Good(mem') /\ mem'.contacts = s.contacts
  BY <1>2, <1>3, SetRatchetGood
<1>6. Good(disk')
  BY <1>1, <1>4, <1>5, ForDiskGood
<1>7. Len(mem.contacts) \in Nat /\ Len(s.contacts) \in Nat
  BY <1>1, <1>2, Shape DEF Good
<1>8. selected' \in 0 .. Len(mem'.contacts)
  <2>1. selected' \in 0 .. Len(s.contacts)
    BY <1>1, <1>2, <1>4, <1>7
  <2> QED
    BY <1>5, <2>1
<1>9. Ids(mem) \subseteq Ids(mem')
  BY <1>2, <1>5 DEF Ids
<1> QED
  BY <1>5, <1>6, <1>8, <1>9

(* The contacts a command may be about are in the book. *)
LEMMA NamedIn ==
    ASSUME IInv
    PROVE  Named \subseteq Ids(mem)
<1>1. BookIn(mem.contacts) /\ selected \in 0 .. Len(mem.contacts)
  BY DEF IInv, Good
<1>2. Len(mem.contacts) \in Nat /\ DOMAIN mem.contacts = 1 .. Len(mem.contacts)
  BY <1>1, Shape
<1>3. \A token : ResolveDenyToken(mem, token) \subseteq Ids(mem)
  BY <1>1, ResolvedIn
<1>4. \A i \in {selected} \ {0} : mem.contacts[i].id \in Ids(mem)
  <2>1. \A i \in {selected} \ {0} : i \in DOMAIN mem.contacts
    BY <1>1, <1>2
  <2> QED
    BY <2>1 DEF Ids
<1>5. UNION {ResolveDenyToken(mem, token) : token \in Tokens(mem)} \subseteq Ids(mem)
  BY <1>3
<1>6. {mem.contacts[i].id : i \in {selected} \ {0}} \subseteq Ids(mem)
  BY <1>4
<1> QED
  BY <1>5, <1>6 DEF Named

(* A command about the marks and lists keeps what is selected and staged. *)
LEMMA CommandKeeps ==
    ASSUME IInv, NEW s, Good(s), Len(s.contacts) = Len(mem.contacts), Command(s)
    PROVE  IInv'
<1>1. Good(mem') /\ Good(disk')
  BY PersistGood DEF Command, IInv
<1>2. staged' = 0 /\ selected' = selected /\ installing' = installing /\ shown' = shown
      /\ mem' = s
  BY DEF Command, AtPrompt, ui, history
<1>3. selected' \in 0 .. Len(mem'.contacts)
  BY <1>2 DEF IInv
<1> QED
  BY <1>1, <1>2, <1>3 DEF IInv

(* The first invariant holds at first ... *)
LEMMA InitIInv == Init => IInv
<1> SUFFICES ASSUME Init PROVE IInv
  OBVIOUS
<1>1. Len(mem.contacts) = 0
  BY DEF Init, NoSession
<1> QED
  BY <1>1, NoSessionGood DEF Init, IInv

(* ... and after every step. *)
LEMMA NextIInv == IInv /\ [Next]_vars => IInv'
<1> SUFFICES ASSUME IInv, [Next]_vars PROVE IInv'
  OBVIOUS
<1>good. Good(mem) /\ Good(disk) /\ BookIn(mem.contacts) /\ BookIn(disk.contacts)
  BY DEF IInv, Good
<1>len. Len(mem.contacts) \in Nat
  BY <1>good, Shape
<1>inv. /\ installing \subseteq Owners /\ selected \in 0 .. Len(mem.contacts)
        /\ staged = 0 \/ staged \in Ids(mem)
        /\ unlocked \/ staged = 0
        /\ shown \subseteq Invites
  BY DEF IInv
<1>named. Named \subseteq Ids(mem)
  BY NamedIn
(* what adds a contact *)
<1>1. ASSUME NEW who \in Owners, AtPrompt, InstallContact(who),
             UNCHANGED <<unlocked, staged, installing, time, history>>
      PROVE  IInv'
  BY <1>1, <1>inv, InstallGood DEF IInv, history
<1>2. CASE \E who \in ContactsLinked : AddContact(who)
  BY <1>1, <1>2, TextsNameOwners DEF AddContact
<1>3. CASE \E invite \in InvitesRead : RedeemInvite(invite)
  <2>1. PICK invite \in InvitesRead : RedeemInvite(invite)
    BY <1>3
  <2>2. PICK who \in BoundContact(ParseInvite({invite}, time)) : InstallContact(who)
    BY <2>1 DEF RedeemInvite
  <2>3. who \in Owners
    BY TextsNameOwners
  <2> QED
    BY <1>1, <2>1, <2>2, <2>3 DEF RedeemInvite
<1>4. CASE InstallAccepted
  <2>1. PICK who \in installing : InstallContact(who)
    BY <1>4 DEF InstallAccepted
  <2>2. /\ Good(mem') /\ Good(disk') /\ selected' \in 0 .. Len(mem'.contacts)
        /\ Ids(mem) \subseteq Ids(mem')
    BY <1>inv, <2>1, InstallGood
  <2> QED
    BY <1>4, <1>inv, <2>2 DEF InstallAccepted, IInv, history
(* the ledger *)
<1>5. ASSUME NEW i \in Invites, NEW ttl \in Ttls, IssueInvite(i, ttl)
      PROVE  IInv'
  <2> DEFINE left == PurgeExpired(mem)
  <2>1. Good(left) /\ left.contacts = mem.contacts
    BY <1>good, PurgeGood
  <2>2. mem' = [left EXCEPT !.invites = @ \cup {[id |-> i, expires |-> time + ttl]}]
    BY <1>5 DEF IssueInvite, Issue
  <2> HIDE DEF left
  <2> DEFINE more == left.invites \cup {[id |-> i, expires |-> time + ttl]}
  <2>3. mem' = [left EXCEPT !.invites = more]
    BY <2>2
  <2> HIDE DEF more
  <2>4. Fields(mem') /\ mem'.contacts = left.contacts /\ mem'.verified = left.verified
    BY <2>1, <2>3 DEF Good, Fields
  <2>5. Good(mem')
    BY <2>1, <2>4, KeepsGood
  <2>6. /\ disk' = ForDisk(mem') \/ disk' = disk
        /\ shown' \subseteq shown \cup {i}
        /\ UNCHANGED <<ui, installing>>
    BY <1>5 DEF IssueInvite
  <2>7. Good(disk')
    BY <1>good, <2>5, <2>6, ForDiskGood
  <2>8. Ids(mem') = Ids(mem) /\ mem'.contacts = mem.contacts
    BY <2>1, <2>4 DEF Ids
  <2> QED
    BY <1>inv, <2>5, <2>6, <2>7, <2>8 DEF IInv, ui
<1>6. ASSUME NEW e \in mem.invites, e.id \in shown, NEW s, Good(s), s.contacts = mem.contacts,
             NEW reply, reply \subseteq Owners, Spend(s, e, reply)
      PROVE  IInv'
  <2> DEFINE rest == s.invites \ {e}
  <2>1. mem' = [s EXCEPT !.invites = rest]
    BY <1>6 DEF Spend
  <2> HIDE DEF rest
  <2>2. Fields(mem') /\ mem'.contacts = s.contacts /\ mem'.verified = s.verified
    BY <1>6, <2>1 DEF Good, Fields
  <2>3. Good(mem')
    BY <1>6, <2>2, KeepsGood
  <2>4. Good(disk')
    BY <1>6, <1>good, <2>3, PersistClosingGood DEF Spend
  <2>5. Ids(mem') = Ids(mem) /\ mem'.contacts = mem.contacts
    BY <1>6, <2>2 DEF Ids
  <2>6. installing' \subseteq Owners /\ UNCHANGED <<ui, shown>>
    BY <1>6 DEF Spend
  <2> QED
    BY <1>inv, <2>3, <2>4, <2>5, <2>6 DEF IInv, ui
<1>7. ASSUME NEW e \in mem.invites, e.id \in shown, NEW reply \in RepliedTo[e.id],
             AcceptInviteReply(e, reply)
      PROVE  IInv'
  <2>1. reply \in Replied(e.id)
    BY <1>7, <1>inv DEF RepliedTo
  <2>2. reply \subseteq Owners
    BY <2>1, TextsNameOwners
  <2> QED
    BY <1>6, <1>7, <1>good, <2>2 DEF AcceptInviteReply
<1>8. ASSUME NEW e \in mem.invites, e.id \in shown, NEW reply \in GreetedWith[e.id],
             InviteHello(e, reply)
      PROVE  IInv'
  <2>1. reply \in Greeted(Me, e.id)
    BY <1>8, <1>inv DEF GreetedWith
  <2>2. reply \subseteq Owners
    BY <2>1, TextsNameOwners
  <2>3. Good(PurgeExpired(mem)) /\ PurgeExpired(mem).contacts = mem.contacts
    BY <1>good, PurgeGood
  <2> QED
    BY <1>6, <1>8, <2>2, <2>3 DEF InviteHello
(* what changes neither contacts nor marks *)
<1>9. ASSUME NEW s, Good(s), s.contacts = mem.contacts, mem' = s, Good(disk'),
             UNCHANGED <<ui, installing, shown>>
      PROVE  IInv'
  <2>1. Ids(mem') = Ids(mem) /\ mem'.contacts = mem.contacts
    BY <1>9 DEF Ids
  <2> QED
    BY <1>9, <1>inv, <2>1 DEF IInv, ui
<1>10. CASE CountInvites
  BY <1>9, <1>10, <1>good, PurgeGood DEF CountInvites, history
<1>11. CASE OtherFrame
  <2>1. Good(PurgeExpired(mem)) /\ PurgeExpired(mem).contacts = mem.contacts
    BY <1>good, PurgeGood
  <2>2. mem' = PurgeExpired(mem) /\ (disk' = disk \/ Persist(mem'))
    BY <1>11 DEF OtherFrame
  <2>3. Good(disk')
    BY <1>good, <2>1, <2>2, PersistGood
  <2> QED
    BY <1>9, <1>11, <2>1, <2>2, <2>3 DEF OtherFrame, history
<1>12. CASE RevokeAll
  <2>1. Fields(mem') /\ mem'.contacts = mem.contacts /\ mem'.verified = mem.verified
    BY <1>12, <1>good DEF RevokeAll, Good, Fields
  <2>2. Good(mem')
    BY <1>good, <2>1, KeepsGood
  <2>3. Good(disk')
    BY <1>12, <1>good, <2>2, PersistClosingGood DEF RevokeAll
  <2> QED
    BY <1>9, <1>12, <2>1, <2>2, <2>3 DEF RevokeAll
<1>13. CASE SaveAnytime
  BY <1>9, <1>13, <1>good, PersistGood DEF SaveAnytime, history
<1>14. CASE \E i \in DOMAIN mem.contacts : SendText(i)
  <2>1. PICK i \in DOMAIN mem.contacts : SendText(i)
    BY <1>14
  <2>2. PICK r : disk' = ForDisk(SetRatchet(disk, mem.contacts[i].id, r.peer))
    BY <2>1 DEF SendText
  <2>3. Good(disk')
    BY <1>good, <2>2, SetRatchetGood, ForDiskGood
  <2> QED
    BY <1>9, <1>good, <2>1, <2>3 DEF SendText
(* the commands about a contact *)
<1>15. ASSUME NEW s, Fields(s), s.contacts = mem.contacts, s.verified = mem.verified, Command(s)
       PROVE  IInv'
  BY <1>15, <1>good, KeepsGood, CommandKeeps
<1>16. ASSUME NEW id \in Ids(mem), Verify(id) PROVE IInv'
  BY <1>16, <1>good, VerifyGood, CommandKeeps DEF Verify, SameContacts
<1>17. ASSUME NEW id \in Ids(mem), Block(id) PROVE IInv'
  <2> DEFINE b == mem.blocked \cup {id}
             m == mem.muted \ {id}
             s == [mem EXCEPT !.blocked = b, !.muted = m]
  <2>1. Command(s)
    BY <1>17 DEF Block
  <2>2. s = [[mem EXCEPT !.blocked = b] EXCEPT !.muted = m]
    BY <1>good DEF Good, Fields
  <2> HIDE DEF b, m, s
  <2>3. Fields(s) /\ s.contacts = mem.contacts /\ s.verified = mem.verified
    BY <1>good, <2>2 DEF Good, Fields
  <2> QED
    BY <1>15, <2>1, <2>3
<1>18. ASSUME NEW id \in Ids(mem), Mute(id) PROVE IInv'
  <2> DEFINE m == mem.muted \cup {id}
             s == [mem EXCEPT !.muted = m]
  <2>1. Command(s)
    BY <1>18 DEF Mute
  <2> HIDE DEF m
  <2>2. Fields(s) /\ s.contacts = mem.contacts /\ s.verified = mem.verified
    BY <1>good DEF Good, Fields
  <2> HIDE DEF s
  <2> QED
    BY <1>15, <2>1, <2>2
<1>19. ASSUME NEW token, Unblock(token) PROVE IInv'
  <2> DEFINE b == TakeOff(mem.blocked, token)
             s == [mem EXCEPT !.blocked = b]
  <2>1. Command(s)
    BY <1>19 DEF Unblock
  <2> HIDE DEF b
  <2>2. Fields(s) /\ s.contacts = mem.contacts /\ s.verified = mem.verified
    BY <1>good DEF Good, Fields
  <2> HIDE DEF s
  <2> QED
    BY <1>15, <2>1, <2>2
<1>20. ASSUME NEW token, Unmute(token) PROVE IInv'
  <2> DEFINE m == TakeOff(mem.muted, token)
             s == [mem EXCEPT !.muted = m]
  <2>1. Command(s)
    BY <1>20 DEF Unmute
  <2> HIDE DEF m
  <2>2. Fields(s) /\ s.contacts = mem.contacts /\ s.verified = mem.verified
    BY <1>good DEF Good, Fields
  <2> HIDE DEF s
  <2> QED
    BY <1>15, <2>1, <2>2
<1>21. ASSUME NEW token, Unverify(token) PROVE IInv'
  <2> DEFINE left == TakeOff(mem.verified, token)
             s == [mem EXCEPT !.verified = left,
                              !.contacts = [i \in DOMAIN @ |->
                                               IF @[i].id \in left THEN @[i]
                                               ELSE [@[i] EXCEPT !.compared = {}]]]
  <2>1. left \subseteq mem.verified
    BY DEF TakeOff
  <2>2. Command(s)
    BY <1>21 DEF Unverify
  <2> HIDE DEF left
  <2>3. Good(s) /\ Len(s.contacts) = Len(mem.contacts)
    BY <1>good, <2>1, UnverifyGood DEF SameContacts
  <2> HIDE DEF s
  <2> QED
    BY <2>2, <2>3, CommandKeeps
<1>22. CASE SwitchPosture
  <2> DEFINE on == ~mem.extreme
             s == [mem EXCEPT !.extreme = on]
  <2>1. Command(s)
    BY <1>22 DEF SwitchPosture
  <2> HIDE DEF on
  <2> DEFINE session == [contacts : {mem.contacts}, verified : {mem.verified},
                         blocked : {mem.blocked}, muted : {mem.muted},
                         ratchets : {mem.ratchets}, invites : {mem.invites},
                         extreme : {mem.extreme, on}]
  <2>a. mem \in session
    BY <1>good DEF Good, Fields
  <2>b. s \in session
    BY <2>a
  <2>2. Fields(s) /\ s.contacts = mem.contacts /\ s.verified = mem.verified
    BY <2>b DEF Fields
  <2> HIDE DEF s
  <2> QED
    BY <1>15, <2>1, <2>2
(* selecting and deleting *)
<1>23. ASSUME NEW i \in DOMAIN mem.contacts, Select(i) PROVE IInv'
  <2>1. i \in 0 .. Len(mem.contacts)
    BY <1>good, <1>len, Shape
  <2> QED
    BY <1>23, <1>inv, <1>good, <2>1 DEF Select, IInv, Ids, history
<1>24. ASSUME NEW id \in Ids(mem), StageDelete(id) PROVE IInv'
  BY <1>24, <1>inv, <1>good DEF StageDelete, IInv, Ids, history, AtPrompt, Free
<1>25. CASE CancelDelete
  BY <1>25, <1>inv, <1>good DEF CancelDelete, IInv, Ids, history
<1>26. CASE ConfirmDelete
  <2>1. staged \in Ids(mem) /\ staged' = 0 /\ mem' = DeleteContactSecure(mem, staged)
    BY <1>26, <1>inv DEF ConfirmDelete
  <2>2. Good(mem') /\ Len(mem'.contacts) = Len(mem.contacts) - 1
    BY <1>good, <2>1, DeleteGood DEF Removed
  <2>3. Good(disk')
    BY <1>26, <1>good, <2>2, PersistGood DEF ConfirmDelete
  <2> DEFINE removed == CHOOSE i \in DOMAIN mem.contacts : mem.contacts[i].id = staged
  <2>4. removed \in 1 .. Len(mem.contacts)
    BY <1>good, <2>1, PositionOf, Shape
  <2>5. selected' = SelectionAfterRemoval(removed)
    BY <1>26 DEF ConfirmDelete
  <2> HIDE DEF removed
  <2>6. \/ selected' = 0
        \/ selected > removed /\ selected' = selected - 1
        \/ selected # removed /\ ~(selected > removed) /\ selected' = selected
    <3>1. CASE selected = removed
      BY <2>5, <3>1 DEF SelectionAfterRemoval
    <3>2. CASE selected # removed /\ selected > removed
      BY <2>5, <3>2 DEF SelectionAfterRemoval
    <3>3. CASE selected # removed /\ ~(selected > removed)
      BY <2>5, <3>3 DEF SelectionAfterRemoval
    <3> QED
      BY <3>1, <3>2, <3>3
  <2>7. selected' \in 0 .. Len(mem'.contacts)
    BY <1>inv, <1>len, <2>2, <2>4, <2>6
  <2> QED
    BY <1>26, <1>inv, <2>1, <2>2, <2>3, <2>7 DEF ConfirmDelete, IInv, history
(* locking, crashing, unlocking *)
<1>27. ASSUME LoseMemory, Good(disk') PROVE IInv'
  <2>1. Len(NoSession.contacts) = 0
    BY DEF NoSession
  <2> QED
    BY <1>27, <1>inv, <2>1, NoSessionGood DEF LoseMemory, IInv, history
<1>28. CASE LockUi
  BY <1>27, <1>28, <1>good, PersistGood DEF LockUi
<1>29. CASE Crash
  BY <1>27, <1>29, <1>good DEF Crash
<1>30. CASE Unlock
  <2>1. selected' \in 0 .. Len(disk.contacts)
    BY <1>30, <1>good, Shape DEF Unlock
  <2> QED
    BY <1>30, <1>inv, <1>good, <2>1 DEF Unlock, IInv, history
<1>31. CASE TimePasses \/ UNCHANGED vars
  BY <1>31, <1>inv, <1>good DEF TimePasses, vars, IInv, Ids, ui, history
<1>32. CASE \E i \in DOMAIN mem.contacts : Select(i) \/ SendText(i)
  BY <1>14, <1>23, <1>32
<1>33. CASE \E id \in Named : Verify(id) \/ Block(id) \/ Mute(id) \/ StageDelete(id)
  BY <1>16, <1>17, <1>18, <1>24, <1>33, <1>named
<1>34. CASE \E token \in Tokens(mem) : Unverify(token) \/ Unblock(token) \/ Unmute(token)
  BY <1>19, <1>20, <1>21, <1>34
<1>35. CASE \E e \in {e \in mem.invites : e.id \in shown} :
                 \/ \E reply \in RepliedTo[e.id] : AcceptInviteReply(e, reply)
                 \/ \E reply \in GreetedWith[e.id] : InviteHello(e, reply)
  BY <1>7, <1>8, <1>35
<1>36. CASE \E i \in Invites, ttl \in Ttls : IssueInvite(i, ttl)
  BY <1>5, <1>36
<1> QED
  BY <1>2, <1>3, <1>4, <1>10, <1>11, <1>12, <1>13, <1>22, <1>25, <1>26, <1>28, <1>29, <1>30,
     <1>31, <1>32, <1>33, <1>34, <1>35, <1>36, Zenon DEF Next

-----------------------------------------------------------------------------
(* It gives what the run checks. *)
LEMMA IInvGivesTrust == IInv => TrustIsEarned
<1> SUFFICES ASSUME NEW s, Good(s)
             PROVE  /\ \A c \in Range(s.contacts) : c.who \in Owners
                    /\ \A id \in s.verified :
                          \E i \in DOMAIN s.contacts :
                              s.contacts[i].id = id /\ s.contacts[i].compared = {s.contacts[i].who}
  BY Zenon DEF IInv, TrustIsEarned
<1>1. \A c \in Range(s.contacts) : c.who \in Owners
  BY Shape DEF Good, Range
<1> QED
  BY <1>1 DEF Good, EarnedIn

(* Audit I-6 and "neither trust nor a trusted name carries over to new keys", for every     *)
(* book: each contact, in memory and in state.enc, is at an onion whose service bound itself *)
(* to the contact's keys, and one marked as verified has the onion and the keys the user     *)
(* compared, after any links, invites, replies, deletions, failed saves and crashes.         *)
THEOREM TrustEarned == Spec => []TrustIsEarned
<1>1. Spec => []IInv
  BY InitIInv, NextIInv, PTL DEF Spec
<1> QED
  BY <1>1, IInvGivesTrust, PTL

-----------------------------------------------------------------------------
(* Ids, sessions and the ledger.                                                            *)

(* What fresh_contact_id looks at. *)
UsedIds(s) == Ids(s) \cup s.verified \cup s.blocked \cup s.muted \cup {r.id : r \in s.ratchets}

(* No two records have an id, and there are finitely many ids. *)
Whole(s) ==
    /\ \A i, j \in 1 .. Len(s.contacts) : s.contacts[i].id = s.contacts[j].id => i = j
    /\ IsFiniteSet(UsedIds(s))

(* The ratchet under a record's id is with the keys of the record. *)
Fitting(s) ==
    \A i \in 1 .. Len(s.contacts), r \in s.ratchets :
        r.id = s.contacts[i].id => r.peer = s.contacts[i].who.keys

(* No two invites have an id, and none that was closed is open. *)
Ledger(s, gone) ==
    /\ \A e, f \in s.invites : e.id = f.id => e = f
    /\ \A e \in s.invites : e.id \notin gone

(* The second inductive invariant.  Sessions fit contacts because ids are distinct and a new  *)
(* one is fresh; closed invites stay closed because what was closed is in neither ledger.     *)
SInv ==
    /\ Whole(mem) /\ Whole(disk)
    /\ mixed \/ (Fitting(mem) /\ Fitting(disk))
    /\ unlocked \/ (selected = 0 /\ installing = {})
    /\ Ledger(mem, closed) /\ Ledger(disk, closed)

(* A contact that is new is on no list, and the marks and ratchets of the others stay. *)
StartsClean(u, s) ==
    Len(u.contacts) > Len(s.contacts) =>
        /\ u.contacts[Len(u.contacts)].id \notin u.verified \cup u.blocked \cup u.muted
        /\ u.verified = s.verified
        /\ s.ratchets \subseteq u.ratchets

(* fresh_contact_id finds a number, and it is not in use. *)
LEMMA FreshIsFresh ==
    ASSUME NEW s, Len(s.contacts) \in Nat, IsFiniteSet(UsedIds(s))
    PROVE  FreshContactId(s) \notin UsedIds(s)
<1> DEFINE used == UsedIds(s)
           n == Len(s.contacts) + 1
           c == Cardinality(used)
           free == (n .. n + c) \ used
<1>1. FreshContactId(s) = Min(free)
  BY DEF FreshContactId, UsedIds
<1>2. c \in Nat
  BY FS_CardinalityType
<1>3. IsFiniteSet(n .. n + c) /\ Cardinality(n .. n + c) = c + 1
  <2> PICK m : m = n + c
    OBVIOUS
  <2>1. n \in Int /\ m \in Int /\ ~(n > m) /\ m - n + 1 = c + 1
    BY <1>2
  <2>2. IsFiniteSet(n .. m) /\ Cardinality(n .. m) = m - n + 1
    BY <2>1, FS_Interval
  <2> QED
    BY <2>1, <2>2
<1>4. free # {}
  <2> SUFFICES ASSUME n .. n + c \subseteq used PROVE FALSE
    OBVIOUS
  <2>1. Cardinality(n .. n + c) <= c
    BY FS_Subset
  <2> QED
    BY <1>2, <1>3, <2>1
<1>5. free \in SUBSET Nat
  BY <1>2
<1> HIDE DEF free
<1>6. Min(free) \in free
  BY <1>4, <1>5, MinIn
<1> QED
  BY <1>1, <1>6 DEF free

(* One more id leaves them finite. *)
LEMMA FewIds ==
    ASSUME NEW S, IsFiniteSet(S), NEW x, NEW T, T \subseteq S \cup {x}
    PROVE  IsFiniteSet(T)
<1>1. IsFiniteSet(S \cup {x})
  BY FS_AddElement
<1> QED
  BY <1>1, FS_Subset

(* What is saved is the session or, in the extreme posture, nothing of it. *)
LEMMA ForDiskIs ==
    ASSUME NEW s
    PROVE  \/ ForDisk(s) = s
           \/ /\ Len(ForDisk(s).contacts) = 0 /\ UsedIds(ForDisk(s)) = {}
              /\ ForDisk(s).invites = {}
<1>1. CASE ~s.extreme
  BY <1>1 DEF ForDisk
<1>2. CASE s.extreme
  <2> DEFINE t == [NoSession EXCEPT !.extreme = TRUE]
  <2>1. /\ t.contacts = <<>> /\ t.verified = {} /\ t.blocked = {} /\ t.muted = {}
        /\ t.ratchets = {} /\ t.invites = {}
    BY DEF NoSession
  <2>2. ForDisk(s) = t
    BY <1>2 DEF ForDisk
  <2> HIDE DEF t
  <2>3. Len(t.contacts) = 0 /\ DOMAIN t.contacts = {}
    BY <2>1
  <2>4. UsedIds(t) = {}
    BY <2>1, <2>3 DEF UsedIds, Ids
  <2> QED
    BY <2>1, <2>2, <2>3, <2>4
<1> QED
  BY <1>1, <1>2

(* What is saved is as sound as the session. *)
LEMMA ForDiskKeeps ==
    ASSUME NEW s, Whole(s), NEW gone
    PROVE  /\ Whole(ForDisk(s))
           /\ Fitting(s) => Fitting(ForDisk(s))
           /\ Ledger(s, gone) => Ledger(ForDisk(s), gone)
<1> PICK t : t = ForDisk(s)
  OBVIOUS
<1>1. CASE t = s
  BY <1>1
<1>2. CASE Len(t.contacts) = 0 /\ UsedIds(t) = {} /\ t.invites = {}
  <2>1. 1 .. Len(t.contacts) = {}
    BY <1>2
  <2>2. Whole(t)
    BY <1>2, <2>1, FS_EmptySet DEF Whole
  <2>3. Fitting(t) /\ Ledger(t, gone)
    BY <1>2, <2>1 DEF Fitting, Ledger
  <2> QED
    BY <2>2, <2>3
<1> QED
  BY <1>1, <1>2, ForDiskIs

(* Fewer invites, or more of them closed that are not there. *)
LEMMA FewerInvites ==
    ASSUME NEW s, NEW gone, Ledger(s, gone), NEW t, t.invites \subseteq s.invites
    PROVE  Ledger(t, gone)
BY DEF Ledger

(* The same records with the same ratchets, and no id more. *)
LEMMA SameKeeps ==
    ASSUME NEW s, Whole(s), NEW t, SameContacts(t, s), t.ratchets = s.ratchets,
           UsedIds(t) \subseteq UsedIds(s)
    PROVE  Whole(t) /\ (Fitting(s) => Fitting(t))
<1>1. IsFiniteSet(UsedIds(t))
  BY FS_Subset DEF Whole
<1>2. Whole(t)
  BY <1>1 DEF Whole, SameContacts
<1>3. Fitting(s) => Fitting(t)
  BY DEF Fitting, SameContacts
<1> QED
  BY <1>2, <1>3

(* A deletion. *)
LEMMA RemovedKeeps ==
    ASSUME NEW s, Good(s), Whole(s), NEW t, Good(t), NEW i, Removed(t, s, i)
    PROVE  Whole(t) /\ (Fitting(s) => Fitting(t))
<1> DEFINE n == Len(s.contacts)
           at(j) == IF j < i THEN j ELSE j + 1
<1>1. /\ n \in Nat /\ i \in 1 .. n /\ Len(t.contacts) = n - 1
      /\ DOMAIN s.contacts = 1 .. n /\ DOMAIN t.contacts = 1 .. n - 1
  BY Shape DEF Good, Removed
<1>2. \A j \in 1 .. n - 1 : at(j) \in 1 .. n /\ t.contacts[j] = s.contacts[at(j)]
  BY <1>1 DEF Removed
<1>3. \A j, k \in 1 .. n - 1 : at(j) = at(k) => j = k
  BY <1>1
<1>4. t.ratchets \subseteq s.ratchets
  BY DEF Removed
<1>5. UsedIds(t) \subseteq UsedIds(s)
  <2>1. Ids(t) \subseteq Ids(s)
    <3> HIDE DEF n, at
    <3> QED
      BY <1>1, <1>2 DEF Ids
  <2>2. /\ t.verified \subseteq s.verified /\ t.blocked \subseteq s.blocked
        /\ t.muted \subseteq s.muted
    BY DEF Removed
  <2> QED
    BY <1>4, <2>1, <2>2 DEF UsedIds
<1>6. IsFiniteSet(UsedIds(t))
  BY <1>5, FS_Subset DEF Whole
<1> HIDE DEF at
<1>7. Whole(t)
  <2>1. \A j, k \in 1 .. n : s.contacts[j].id = s.contacts[k].id => j = k
    BY DEF Whole
  <2>2. ASSUME NEW j \in 1 .. n - 1, NEW k \in 1 .. n - 1, t.contacts[j].id = t.contacts[k].id
        PROVE  j = k
    <3>1. /\ at(j) \in 1 .. n /\ at(k) \in 1 .. n
          /\ s.contacts[at(j)].id = s.contacts[at(k)].id
      BY <1>2, <2>2
    <3>2. at(j) = at(k)
      BY <2>1, <3>1
    <3> QED
      BY <1>3, <3>2
  <2> QED
    BY <1>1, <1>6, <2>2 DEF Whole
<1>8. ASSUME Fitting(s) PROVE Fitting(t)
  <2> SUFFICES ASSUME NEW j \in 1 .. n - 1, NEW r \in t.ratchets, r.id = t.contacts[j].id
               PROVE  r.peer = t.contacts[j].who.keys
    BY <1>1 DEF Fitting
  <2>1. at(j) \in 1 .. n /\ t.contacts[j] = s.contacts[at(j)] /\ r \in s.ratchets
    BY <1>2, <1>4
  <2> QED
    BY <1>8, <2>1 DEF Fitting
<1> QED
  BY <1>7, <1>8

(* A ratchet that fits is set. *)
LEMMA SetRatchetKeeps ==
    ASSUME NEW s, Good(s), Whole(s), NEW id, NEW keys
    PROVE  LET t == SetRatchet(s, id, keys)
           IN  /\ Whole(t)
               /\ t.invites = s.invites /\ t.verified = s.verified
               /\ t.blocked = s.blocked /\ t.muted = s.muted
               /\ t.ratchets = {r \in s.ratchets : r.id # id} \cup {[id |-> id, peer |-> keys]}
<1> DEFINE t == SetRatchet(s, id, keys)
           set == {r \in s.ratchets : r.id # id} \cup {[id |-> id, peer |-> keys]}
<1>1. t = [s EXCEPT !.ratchets = set]
  BY DEF SetRatchet
<1>2. \A r \in set : r \in s.ratchets \/ r.id = id
  OBVIOUS
<1> HIDE DEF t, set
<1>3. /\ t.contacts = s.contacts /\ t.verified = s.verified /\ t.blocked = s.blocked
      /\ t.muted = s.muted /\ t.ratchets = set /\ t.invites = s.invites
  BY <1>1 DEF Good, Fields
<1>4. {r.id : r \in set} \subseteq {r.id : r \in s.ratchets} \cup {id}
  BY <1>2
<1>5. UsedIds(t) \subseteq UsedIds(s) \cup {id}
  BY <1>3, <1>4 DEF UsedIds, Ids
<1>6. IsFiniteSet(UsedIds(t))
  BY <1>5, FewIds DEF Whole
<1>7. Whole(t)
  BY <1>3, <1>6 DEF Whole
<1> QED
  BY <1>3, <1>7 DEF t, set

(* A link is installed: its record is new and has a fresh id, or the ratchet under its id is  *)
(* replaced with it.                                                                        *)
LEMMA InstalledKeeps ==
    ASSUME NEW s, Good(s), Whole(s), NEW t, Good(t), NEW who, NEW at, Upserted(t, s, who, at),
           NEW u, u = SetRatchet(t, t.contacts[at].id, who.keys)
    PROVE  /\ Whole(u) /\ (Fitting(s) => Fitting(u))
           /\ u.contacts = t.contacts /\ u.invites = s.invites
           /\ StartsClean(u, s)
<1> DEFINE n == Len(s.contacts)
           new == FreshContactId(s)
<1> PICK id : id = t.contacts[at].id
  OBVIOUS
<1>1. /\ n \in Nat /\ DOMAIN s.contacts = 1 .. n
      /\ Len(t.contacts) \in Nat /\ DOMAIN t.contacts = 1 .. Len(t.contacts)
  BY Shape DEF Good
<1>2. \A i, j \in 1 .. n : s.contacts[i].id = s.contacts[j].id => i = j
  BY DEF Whole
<1>3. new \notin UsedIds(s)
  BY <1>1, FreshIsFresh DEF Whole
<1>4. /\ t.verified \subseteq s.verified
      /\ t.blocked = s.blocked /\ t.muted = s.muted
      /\ t.ratchets = s.ratchets /\ t.invites = s.invites
      /\ t.contacts[at].who = who
  BY DEF Upserted, SameLists
<1>5. \A j \in 1 .. n : /\ t.contacts[j].id = s.contacts[j].id
                        /\ j # at => t.contacts[j].who = s.contacts[j].who
  BY DEF Upserted
<1>6. \/ at = n + 1 /\ Len(t.contacts) = at /\ id = new /\ t.verified = s.verified \ {new}
      \/ at \in 1 .. n /\ Len(t.contacts) = n
  BY DEF Upserted
<1>7. \A j \in 1 .. n : s.contacts[j].id \in UsedIds(s)
  BY <1>1 DEF UsedIds, Ids
<1> HIDE DEF n, new
<1>8. \A j \in 1 .. Len(t.contacts) : j = at \/ j \in 1 .. n
  BY <1>1, <1>6
<1>9. at \in 1 .. Len(t.contacts)
  BY <1>1, <1>6
<1>10. \A j \in 1 .. n : j # at => s.contacts[j].id # id
  BY <1>2, <1>3, <1>5, <1>6, <1>7
<1>11. \A i, j \in 1 .. Len(t.contacts) : t.contacts[i].id = t.contacts[j].id => i = j
  BY <1>2, <1>5, <1>8, <1>10
<1>12. Whole(t)
  <2>1. Ids(t) \subseteq Ids(s) \cup {id}
    BY <1>1, <1>5, <1>8 DEF Ids
  <2>2. UsedIds(t) \subseteq UsedIds(s) \cup {id}
    BY <1>4, <2>1 DEF UsedIds
  <2>3. IsFiniteSet(UsedIds(t))
    BY <2>2, FewIds DEF Whole
  <2> QED
    BY <1>11, <2>3 DEF Whole
<1>13. u.contacts = t.contacts
  BY SetRatchetGood
<1>14. /\ Whole(u) /\ u.invites = t.invites /\ u.verified = t.verified
       /\ u.blocked = t.blocked /\ u.muted = t.muted
       /\ u.ratchets = {r \in t.ratchets : r.id # id} \cup {[id |-> id, peer |-> who.keys]}
  BY <1>12, SetRatchetKeeps
<1>15. ASSUME Fitting(s) PROVE Fitting(u)
  <2> SUFFICES ASSUME NEW j \in 1 .. Len(t.contacts), NEW r \in u.ratchets,
                      r.id = t.contacts[j].id
               PROVE  r.peer = t.contacts[j].who.keys
    BY <1>13 DEF Fitting
  <2>1. CASE r.id = id
    <3>1. r.peer = who.keys
      BY <1>14, <2>1
    <3>2. j = at
      BY <1>9, <1>11, <2>1
    <3> QED
      BY <1>4, <3>1, <3>2
  <2>2. CASE r.id # id
    <3>1. r \in s.ratchets
      BY <1>4, <1>14, <2>2
    <3>2. j # at /\ j \in 1 .. n
      BY <1>8, <2>2
    <3>3. r.id = s.contacts[j].id /\ t.contacts[j].who = s.contacts[j].who
      BY <1>5, <3>2
    <3>4. r.peer = s.contacts[j].who.keys
      BY <1>15, <3>1, <3>2, <3>3 DEF Fitting, n
    <3> QED
      BY <3>3, <3>4
  <2> QED
    BY <2>1, <2>2
<1>16. ASSUME Len(t.contacts) > n
       PROVE  /\ u.contacts[Len(u.contacts)].id \notin u.verified \cup u.blocked \cup u.muted
              /\ u.verified = s.verified
              /\ s.ratchets \subseteq u.ratchets
  <2>1. at = Len(t.contacts) /\ id = new /\ t.verified = s.verified \ {new}
    BY <1>1, <1>6, <1>16
  <2>2. id \notin s.verified \cup s.blocked \cup s.muted /\ \A r \in s.ratchets : r.id # id
    BY <1>3, <2>1 DEF UsedIds
  <2> QED
    BY <1>4, <1>13, <1>14, <2>1, <2>2
<1>17. StartsClean(u, s)
  BY <1>13, <1>16 DEF StartsClean, n
<1> QED
  BY <1>4, <1>13, <1>14, <1>15, <1>17

-----------------------------------------------------------------------------
(* What the steps do, as far as these properties go *)

(* The ledger in memory lost some invites, which count as closed once that is saved, or it   *)
(* has a new one.                                                                           *)
LedgerStep ==
    \/ \E gone \in SUBSET mem.invites :
          /\ mem'.invites \subseteq mem.invites \ gone
          /\ \/ disk' = disk /\ closed' = closed
             \/ disk' = ForDisk(mem') /\ closed' = closed \cup {e.id : e \in gone}
    \/ \E e : /\ e.id \notin closed
              /\ \A f \in mem.invites : f.id # e.id
              /\ mem'.invites \subseteq mem.invites \cup {e}
              /\ closed' = closed
              /\ disk' = disk \/ disk' = ForDisk(mem')

(* Records and ratchets stay, and there is no new id. *)
KeptBook ==
    /\ SameContacts(mem', mem) /\ mem'.ratchets = mem.ratchets
    /\ UsedIds(mem') \subseteq UsedIds(mem)
    /\ disk' = disk \/ disk' = ForDisk(mem')
    /\ LedgerStep
    /\ UNCHANGED <<unlocked, mixed>>
    /\ unlocked \/ UNCHANGED <<selected, installing>>

(* A link is installed while a session is open, or an accepted invite waits for it. *)
Installs(who) ==
    /\ InstallContact(who)
    /\ unlocked \/ installing # {}
    /\ UNCHANGED <<unlocked, closed, mixed>>

(* Lists that name no new id bring none into the session. *)
LEMMA UsedSame ==
    ASSUME NEW s, Good(s), NEW t, Good(t), SameContacts(t, s), t.ratchets = s.ratchets,
           t.verified \cup t.blocked \cup t.muted \subseteq UsedIds(s)
    PROVE  UsedIds(t) \subseteq UsedIds(s)
<1>1. DOMAIN s.contacts = 1 .. Len(s.contacts) /\ DOMAIN t.contacts = 1 .. Len(t.contacts)
  BY Shape DEF Good
<1>2. Ids(t) = Ids(s)
  BY <1>1 DEF Ids, SameContacts
<1> QED
  BY <1>2 DEF UsedIds

(* A purge takes invites and nothing else. *)
LEMMA PurgeKeeps ==
    ASSUME NEW s, Good(s)
    PROVE  LET t == PurgeExpired(s)
           IN  /\ t.contacts = s.contacts /\ t.verified = s.verified
               /\ t.blocked = s.blocked /\ t.muted = s.muted /\ t.ratchets = s.ratchets
               /\ t.invites \subseteq s.invites
<1> DEFINE left == {e \in s.invites : time < e.expires}
<1>1. PurgeExpired(s) = [s EXCEPT !.invites = left] /\ left \subseteq s.invites
  BY DEF PurgeExpired
<1> HIDE DEF left
<1> QED
  BY <1>1 DEF Good, Fields

(* Every step is of one of six kinds. *)
LEMMA Kinds ==
    ASSUME IInv, [Next]_vars
    PROVE  \/ KeptBook
           \/ \E who \in Owners : Installs(who)
           \/ ConfirmDelete
           \/ \E i \in DOMAIN mem.contacts : SendText(i)
           \/ LoseMemory /\ (disk' = disk \/ disk' = ForDisk(mem))
           \/ Unlock
<1> DEFINE Goal == \/ KeptBook
                   \/ \E who \in Owners : Installs(who)
                   \/ ConfirmDelete
                   \/ \E i \in DOMAIN mem.contacts : SendText(i)
                   \/ LoseMemory /\ (disk' = disk \/ disk' = ForDisk(mem))
                   \/ Unlock
<1> SUFFICES Goal
  OBVIOUS
<1>good. Good(mem) /\ Good(disk) /\ installing \subseteq Owners /\ Fields(mem)
  BY DEF IInv, Good
<1>good2. Good(mem')
  BY NextIInv DEF IInv
<1>named. Named \subseteq Ids(mem) /\ Ids(mem) \subseteq UsedIds(mem)
  BY NamedIn DEF UsedIds
<1>used. mem.verified \cup mem.blocked \cup mem.muted \subseteq UsedIds(mem)
  BY DEF UsedIds
(* contacts *)
<1>1. CASE \E who \in ContactsLinked : AddContact(who)
  <2>1. PICK who \in ContactsLinked : AddContact(who)
    BY <1>1
  <2>2. who \in Owners /\ Installs(who)
    BY <2>1, TextsNameOwners DEF AddContact, Installs, AtPrompt, Free, history
  <2> QED
    BY <2>2
<1>2. CASE \E invite \in InvitesRead : RedeemInvite(invite)
  <2>1. PICK invite \in InvitesRead : RedeemInvite(invite)
    BY <1>2
  <2>2. PICK who \in BoundContact(ParseInvite({invite}, time)) : InstallContact(who)
    BY <2>1 DEF RedeemInvite
  <2>3. who \in Owners
    BY TextsNameOwners
  <2>4. Installs(who)
    BY <2>1, <2>2 DEF RedeemInvite, Installs, AtPrompt, Free, history
  <2> QED
    BY <2>3, <2>4
<1>3. CASE InstallAccepted
  <2>1. PICK who \in installing : InstallContact(who)
    BY <1>3 DEF InstallAccepted
  <2>2. who \in Owners /\ Installs(who)
    BY <1>3, <1>good, <2>1 DEF InstallAccepted, Installs, history
  <2> QED
    BY <2>2
(* what keeps the records and ratchets *)
<1>4. ASSUME mem'.contacts = mem.contacts \/ SameContacts(mem', mem),
             mem'.ratchets = mem.ratchets,
             mem'.verified \cup mem'.blocked \cup mem'.muted \subseteq UsedIds(mem),
             disk' = disk \/ disk' = ForDisk(mem'),
             LedgerStep,
             UNCHANGED <<unlocked, mixed>>,
             unlocked \/ UNCHANGED <<selected, installing>>
      PROVE  Goal
  <2>1. SameContacts(mem', mem)
    BY <1>4 DEF SameContacts
  <2>2. UsedIds(mem') \subseteq UsedIds(mem)
    BY <1>4, <1>good, <1>good2, <2>1, UsedSame
  <2>3. KeptBook
    BY <1>4, <2>1, <2>2 DEF KeptBook
  <2> QED
    BY <2>3
<1>5. ASSUME mem'.invites \subseteq mem.invites, closed' = closed,
             disk' = disk \/ disk' = ForDisk(mem')
      PROVE  LedgerStep
  <2>1. {} \in SUBSET mem.invites /\ mem'.invites \subseteq mem.invites \ {}
        /\ closed' = closed \cup {e.id : e \in {}}
    BY <1>5
  <2> QED
    BY <1>5, <2>1, Zenon DEF LedgerStep
<1>6. ASSUME NEW i \in Invites, NEW ttl \in Ttls, IssueInvite(i, ttl)
      PROVE  Goal
  <2> PICK left : left = PurgeExpired(mem)
    OBVIOUS
  <2> PICK e : e = [id |-> i, expires |-> time + ttl]
    OBVIOUS
  <2>1. /\ left.contacts = mem.contacts /\ left.verified = mem.verified
        /\ left.blocked = mem.blocked /\ left.muted = mem.muted
        /\ left.ratchets = mem.ratchets /\ left.invites \subseteq mem.invites
        /\ Fields(left)
    BY <1>good, PurgeKeeps, PurgeGood DEF Good
  <2>2. mem' = [left EXCEPT !.invites = @ \cup {e}]
    BY <1>6 DEF IssueInvite, Issue
  <2>3. /\ mem'.contacts = mem.contacts /\ mem'.verified = mem.verified
        /\ mem'.blocked = mem.blocked /\ mem'.muted = mem.muted
        /\ mem'.ratchets = mem.ratchets /\ mem'.invites \subseteq mem.invites \cup {e}
    <3> PICK more : more = left.invites \cup {e}
      OBVIOUS
    <3>1. mem' = [left EXCEPT !.invites = more]
      BY <2>2
    <3> QED
      BY <2>1, <3>1 DEF Fields
  <2>4. /\ i \notin closed /\ i \notin {f.id : f \in mem.invites \cup disk.invites}
        /\ closed' = closed /\ (disk' = disk \/ disk' = ForDisk(mem'))
        /\ UNCHANGED <<unlocked, selected, installing, mixed>>
    BY <1>6 DEF IssueInvite, ui
  <2>5. e.id \notin closed /\ \A f \in mem.invites : f.id # e.id
    BY <2>4
  <2>6. LedgerStep
    BY <2>3, <2>4, <2>5, Zenon DEF LedgerStep
  <2> QED
    BY <1>4, <1>used, <2>3, <2>4, <2>6
<1>7. ASSUME NEW e \in mem.invites, NEW s, Fields(s), s.contacts = mem.contacts,
             s.verified = mem.verified, s.blocked = mem.blocked, s.muted = mem.muted,
             s.ratchets = mem.ratchets, s.invites \subseteq mem.invites,
             NEW reply, Spend(s, e, reply), unlocked
      PROVE  Goal
  <2> PICK rest : rest = s.invites \ {e}
    OBVIOUS
  <2>1. mem' = [s EXCEPT !.invites = rest]
    BY <1>7 DEF Spend
  <2>2. /\ mem'.contacts = mem.contacts /\ mem'.verified = mem.verified
        /\ mem'.blocked = mem.blocked /\ mem'.muted = mem.muted
        /\ mem'.ratchets = mem.ratchets /\ mem'.invites = rest
    BY <1>7, <2>1 DEF Fields
  <2>3. \/ disk' = ForDisk(mem') /\ closed' = closed \cup {e.id}
        \/ disk' = disk /\ closed' = closed
    BY <1>7 DEF Spend, PersistClosing
  <2>4. {e} \in SUBSET mem.invites /\ mem'.invites \subseteq mem.invites \ {e}
        /\ {e.id} = {f.id : f \in {e}}
    BY <1>7, <2>2
  <2>5. LedgerStep
    BY <2>3, <2>4, Zenon DEF LedgerStep
  <2>6. UNCHANGED <<unlocked, mixed>> /\ (disk' = disk \/ disk' = ForDisk(mem'))
    BY <1>7, <2>3 DEF Spend, ui
  <2> QED
    BY <1>4, <1>7, <1>used, <2>2, <2>5, <2>6
<1>8. CASE \E e \in {e \in mem.invites : e.id \in shown} :
                \/ \E reply \in RepliedTo[e.id] : AcceptInviteReply(e, reply)
                \/ \E reply \in GreetedWith[e.id] : InviteHello(e, reply)
  <2>1. PICK e \in mem.invites : \/ \E reply : AcceptInviteReply(e, reply)
                                 \/ \E reply : InviteHello(e, reply)
    BY <1>8
  <2>2. ASSUME NEW reply, AcceptInviteReply(e, reply) PROVE Goal
    BY <1>7, <1>good, <2>2 DEF AcceptInviteReply, AtPrompt, Free
  <2>3. ASSUME NEW reply, InviteHello(e, reply) PROVE Goal
    <3>1. Fields(PurgeExpired(mem))
      BY <1>good, PurgeGood DEF Good
    <3>2. Spend(PurgeExpired(mem), e, reply) /\ unlocked
      BY <2>3 DEF InviteHello, Free
    <3> QED
      BY <1>7, <1>good, <3>1, <3>2, PurgeKeeps
  <2> QED
    BY <2>1, <2>2, <2>3
<1>9. CASE CountInvites
  <2>1. mem' = PurgeExpired(mem) /\ UNCHANGED <<disk, closed, unlocked, mixed, selected, installing>>
    BY <1>9 DEF CountInvites, history, ui
  <2> QED
    BY <1>4, <1>5, <1>good, <1>used, <2>1, PurgeKeeps
<1>10. CASE OtherFrame
  <2>1. mem' = PurgeExpired(mem) /\ UNCHANGED <<closed, unlocked, mixed, selected, installing>>
    BY <1>10 DEF OtherFrame, history, ui
  <2>2. disk' = disk \/ disk' = ForDisk(mem')
    BY <1>10 DEF OtherFrame, Persist
  <2> QED
    BY <1>4, <1>5, <1>good, <1>used, <2>1, <2>2, PurgeKeeps
<1>11. CASE RevokeAll
  <2>1. /\ mem'.contacts = mem.contacts /\ mem'.verified = mem.verified
        /\ mem'.blocked = mem.blocked /\ mem'.muted = mem.muted
        /\ mem'.ratchets = mem.ratchets /\ mem'.invites = {}
    BY <1>11, <1>good DEF RevokeAll, Fields
  <2>2. \/ disk' = ForDisk(mem') /\ closed' = closed \cup {e.id : e \in mem.invites}
        \/ disk' = disk /\ closed' = closed
    BY <1>11 DEF RevokeAll, PersistClosing
  <2>3. mem.invites \in SUBSET mem.invites /\ mem'.invites \subseteq mem.invites \ mem.invites
    BY <2>1
  <2>4. LedgerStep
    BY <2>2, <2>3, Zenon DEF LedgerStep
  <2>5. UNCHANGED <<unlocked, mixed, selected, installing>>
    BY <1>11 DEF RevokeAll, ui
  <2> QED
    BY <1>4, <1>used, <2>1, <2>2, <2>4, <2>5
<1>12. CASE SaveAnytime
  <2>1. UNCHANGED <<mem, unlocked, selected, installing, closed, mixed>>
        /\ (disk' = disk \/ disk' = ForDisk(mem'))
    BY <1>12 DEF SaveAnytime, Persist, ui, history
  <2> QED
    BY <1>4, <1>5, <1>used, <2>1
(* commands *)
<1>13. ASSUME NEW s, Command(s), s.contacts = mem.contacts \/ SameContacts(s, mem),
              s.ratchets = mem.ratchets, s.invites = mem.invites,
              s.verified \cup s.blocked \cup s.muted \subseteq UsedIds(mem)
       PROVE  Goal
  <2>1. mem' = s /\ (disk' = disk \/ disk' = ForDisk(mem'))
        /\ UNCHANGED <<unlocked, selected, installing, closed, mixed>>
    BY <1>13 DEF Command, Persist, ui, history
  <2> QED
    BY <1>4, <1>5, <1>13, <2>1
<1>14. ASSUME NEW id \in Ids(mem), Verify(id) PROVE Goal
  <2> DEFINE i == CHOOSE i \in DOMAIN mem.contacts : mem.contacts[i].id = id
             s == [mem EXCEPT !.verified = @ \cup {id},
                              !.contacts[i].compared = {mem.contacts[i].who}]
  <2>1. Command(s)
    BY <1>14 DEF Verify
  <2>2. SameContacts(s, mem) /\ SameLists(s, mem)
    BY <1>good, VerifyGood
  <2>3. s.verified = mem.verified \cup {id}
    BY <1>good DEF Fields
  <2> HIDE DEF s
  <2> QED
    BY <1>13, <1>named, <1>used, <2>1, <2>2, <2>3 DEF SameLists
<1>15. ASSUME NEW id \in Ids(mem), Block(id) PROVE Goal
  <2> PICK b, m : b = mem.blocked \cup {id} /\ m = mem.muted \ {id}
    OBVIOUS
  <2> PICK s : s = [mem EXCEPT !.blocked = b, !.muted = m]
    OBVIOUS
  <2>1. Command(s)
    BY <1>15 DEF Block
  <2>2. /\ s.contacts = mem.contacts /\ s.verified = mem.verified /\ s.blocked = b /\ s.muted = m
        /\ s.ratchets = mem.ratchets /\ s.invites = mem.invites
    BY <1>good DEF Fields
  <2> QED
    BY <1>13, <1>named, <1>used, <2>1, <2>2
<1>16. ASSUME NEW id \in Ids(mem), Mute(id) PROVE Goal
  <2> PICK m : m = mem.muted \cup {id}
    OBVIOUS
  <2> PICK s : s = [mem EXCEPT !.muted = m]
    OBVIOUS
  <2>1. Command(s)
    BY <1>16 DEF Mute
  <2>2. /\ s.contacts = mem.contacts /\ s.verified = mem.verified /\ s.blocked = mem.blocked
        /\ s.muted = m /\ s.ratchets = mem.ratchets /\ s.invites = mem.invites
    BY <1>good DEF Fields
  <2> QED
    BY <1>13, <1>named, <1>used, <2>1, <2>2
<1>17. ASSUME NEW token, Unblock(token) PROVE Goal
  <2> PICK b : b = TakeOff(mem.blocked, token)
    OBVIOUS
  <2>1. b \subseteq mem.blocked
    BY DEF TakeOff
  <2> PICK s : s = [mem EXCEPT !.blocked = b]
    OBVIOUS
  <2>2. Command(s)
    BY <1>17 DEF Unblock
  <2>3. /\ s.contacts = mem.contacts /\ s.verified = mem.verified /\ s.blocked = b
        /\ s.muted = mem.muted /\ s.ratchets = mem.ratchets /\ s.invites = mem.invites
    BY <1>good DEF Fields
  <2> QED
    BY <1>13, <1>used, <2>1, <2>2, <2>3
<1>18. ASSUME NEW token, Unmute(token) PROVE Goal
  <2> PICK m : m = TakeOff(mem.muted, token)
    OBVIOUS
  <2>1. m \subseteq mem.muted
    BY DEF TakeOff
  <2> PICK s : s = [mem EXCEPT !.muted = m]
    OBVIOUS
  <2>2. Command(s)
    BY <1>18 DEF Unmute
  <2>3. /\ s.contacts = mem.contacts /\ s.verified = mem.verified /\ s.blocked = mem.blocked
        /\ s.muted = m /\ s.ratchets = mem.ratchets /\ s.invites = mem.invites
    BY <1>good DEF Fields
  <2> QED
    BY <1>13, <1>used, <2>1, <2>2, <2>3
<1>19. ASSUME NEW token, Unverify(token) PROVE Goal
  <2> PICK left : left = TakeOff(mem.verified, token)
    OBVIOUS
  <2>1. left \subseteq mem.verified
    BY DEF TakeOff
  <2> DEFINE s == [mem EXCEPT !.verified = left,
                              !.contacts = [i \in DOMAIN @ |->
                                               IF @[i].id \in left THEN @[i]
                                               ELSE [@[i] EXCEPT !.compared = {}]]]
  <2>2. Command(s)
    BY <1>19 DEF Unverify
  <2>3. SameContacts(s, mem) /\ SameLists(s, mem)
    BY <1>good, <2>1, UnverifyGood
  <2>4. s.verified = left
    BY <1>good DEF Fields
  <2> HIDE DEF s
  <2> QED
    BY <1>13, <1>used, <2>1, <2>2, <2>3, <2>4 DEF SameLists
<1>20. CASE SwitchPosture
  <2> PICK on : on = ~mem.extreme
    OBVIOUS
  <2> PICK s : s = [mem EXCEPT !.extreme = on]
    OBVIOUS
  <2>1. Command(s)
    BY <1>20 DEF SwitchPosture
  <2>2. /\ s.contacts = mem.contacts /\ s.verified = mem.verified /\ s.blocked = mem.blocked
        /\ s.muted = mem.muted /\ s.ratchets = mem.ratchets /\ s.invites = mem.invites
    BY <1>good DEF Fields
  <2> QED
    BY <1>13, <1>used, <2>1, <2>2
(* selecting, and all else *)
<1>21. ASSUME NEW i \in DOMAIN mem.contacts, Select(i) PROVE Goal
  <2>1. UNCHANGED <<mem, disk, unlocked, installing, closed, mixed>> /\ unlocked
    BY <1>21 DEF Select, AtPrompt, Free, history
  <2> QED
    BY <1>4, <1>5, <1>used, <2>1
<1>22. ASSUME UNCHANGED <<mem, disk, unlocked, selected, installing, closed, mixed>> PROVE Goal
  BY <1>4, <1>5, <1>22, <1>used
<1>23. ASSUME NEW id, StageDelete(id) PROVE Goal
  BY <1>22, <1>23 DEF StageDelete, history
<1>24. CASE CancelDelete \/ TimePasses \/ UNCHANGED vars
  BY <1>22, <1>24 DEF CancelDelete, TimePasses, vars, ui, history
<1>25. CASE LockUi \/ Crash
  BY <1>25 DEF LockUi, Crash, Persist
<1>26. CASE ConfirmDelete \/ Unlock
  BY <1>26
<1>27. CASE \E i \in DOMAIN mem.contacts : Select(i) \/ SendText(i)
  BY <1>21, <1>27
<1>28. CASE \E id \in Named : Verify(id) \/ Block(id) \/ Mute(id) \/ StageDelete(id)
  BY <1>14, <1>15, <1>16, <1>23, <1>28, <1>named
<1>29. CASE \E token \in Tokens(mem) : Unverify(token) \/ Unblock(token) \/ Unmute(token)
  BY <1>17, <1>18, <1>19, <1>29
<1>30. CASE \E i \in Invites, ttl \in Ttls : IssueInvite(i, ttl)
  BY <1>6, <1>30
<1> HIDE DEF Goal
<1> QED
  BY <1>1, <1>2, <1>3, <1>8, <1>9, <1>10, <1>11, <1>12, <1>20, <1>24, <1>25, <1>26, <1>27,
     <1>28, <1>29, <1>30, Zenon DEF Next

-----------------------------------------------------------------------------
(* The second invariant is inductive *)

(* What keeps the records keeps the invariant: the ledger step is saved as a whole or not at all. *)
LEMMA KeptKeeps ==
    ASSUME SInv, KeptBook
    PROVE  SInv'
<1> PICK s : s = mem
  OBVIOUS
<1> PICK t : t = mem'
  OBVIOUS
<1> PICK d : d = disk
  OBVIOUS
<1>1. Whole(t) /\ (Fitting(s) => Fitting(t))
  BY SameKeeps DEF SInv, KeptBook
<1>2. disk' = d \/ disk' = ForDisk(t)
  BY DEF KeptBook
<1>3. Whole(d)
  BY DEF SInv
<1>4. Whole(mem') /\ Whole(disk')
  BY <1>1, <1>2, <1>3, ForDiskKeeps
<1>5. mixed' = mixed
  BY DEF KeptBook
<1>6. mixed \/ (Fitting(s) /\ Fitting(d))
  BY Zenon DEF SInv
<1>7. Fitting(s) /\ Fitting(d) => Fitting(mem') /\ Fitting(disk')
  BY <1>1, <1>2, <1>3, ForDiskKeeps
<1>8. mixed' \/ (Fitting(mem') /\ Fitting(disk'))
  BY <1>5, <1>6, <1>7, Zenon
<1>9. unlocked' \/ (selected' = 0 /\ installing' = {})
  <2>1. unlocked' = unlocked /\ (unlocked \/ (selected' = selected /\ installing' = installing))
    BY Zenon DEF KeptBook
  <2>2. unlocked \/ (selected = 0 /\ installing = {})
    BY Zenon DEF SInv
  <2> QED
    BY <2>1, <2>2, Zenon
<1>10. Ledger(s, closed) /\ Ledger(d, closed)
  BY DEF SInv
<1>11. PICK gone : gone = closed'
  OBVIOUS
<1>12. Ledger(t, gone) /\ Ledger(disk', gone)
  <2>1. CASE \E shut \in SUBSET mem.invites :
                /\ mem'.invites \subseteq mem.invites \ shut
                /\ \/ (disk' = disk /\ closed' = closed)
                   \/ (disk' = ForDisk(mem') /\ closed' = closed \cup {e.id : e \in shut})
    <3>1. PICK shut \in SUBSET mem.invites :
                /\ mem'.invites \subseteq mem.invites \ shut
                /\ \/ (disk' = disk /\ closed' = closed)
                   \/ (disk' = ForDisk(mem') /\ closed' = closed \cup {e.id : e \in shut})
      BY <2>1
    <3>2. Ledger(t, closed)
      BY <1>10, <3>1, FewerInvites
    <3>3. Ledger(t, closed \cup {e.id : e \in shut})
      <4>1. ASSUME NEW e \in t.invites, NEW f \in shut PROVE e.id # f.id
        <5>1. e \in s.invites /\ e \notin shut /\ f \in s.invites
          BY <3>1
        <5> QED
          BY <1>10, <5>1 DEF Ledger
      <4> QED
        BY <3>2, <4>1 DEF Ledger
    <3>4. CASE disk' = disk /\ closed' = closed
      BY <1>10, <1>11, <3>2, <3>4
    <3>5. CASE disk' = ForDisk(mem') /\ closed' = closed \cup {e.id : e \in shut}
      BY <1>1, <1>11, <3>3, <3>5, ForDiskKeeps
    <3> QED
      BY <3>1, <3>4, <3>5
  <2>2. CASE \E e : /\ e.id \notin closed
                    /\ \A f \in mem.invites : f.id # e.id
                    /\ mem'.invites \subseteq mem.invites \cup {e}
                    /\ closed' = closed
                    /\ (disk' = disk \/ disk' = ForDisk(mem'))
    <3>1. PICK e : /\ e.id \notin closed
                   /\ \A f \in mem.invites : f.id # e.id
                   /\ mem'.invites \subseteq mem.invites \cup {e}
                   /\ closed' = closed
                   /\ (disk' = disk \/ disk' = ForDisk(mem'))
      BY <2>2
    <3>2. Ledger(t, closed)
      BY <1>10, <3>1 DEF Ledger
    <3> QED
      BY <1>1, <1>10, <1>11, <3>1, <3>2, ForDiskKeeps
  <2> QED
    BY <2>1, <2>2 DEF KeptBook, LedgerStep
<1>13. Ledger(mem', closed') /\ Ledger(disk', closed')
  BY <1>11, <1>12
<1> QED
  BY <1>4, <1>8, <1>9, <1>13, Zenon DEF SInv

(* A link is installed. *)
LEMMA InstallKeeps ==
    ASSUME IInv, SInv, NEW who \in Owners, Installs(who)
    PROVE  /\ SInv'
           /\ Len(mem'.contacts) >= Len(mem.contacts)
           /\ StartsClean(mem', mem)
<1> PICK s : s = mem
  OBVIOUS
<1> PICK d : d = disk
  OBVIOUS
<1> PICK at : at = IF MatchOf(s, who) = 0 THEN Len(s.contacts) + 1 ELSE MatchOf(s, who)
  OBVIOUS
<1> PICK t : t = UpsertContactFromLink(s, who)
  OBVIOUS
<1> PICK u : u = mem'
  OBVIOUS
<1>1. Good(s) /\ Whole(s) /\ Whole(d)
  BY DEF IInv, SInv
<1>2. /\ Good(t) /\ Upserted(t, s, who, at) /\ at \in 1 .. Len(t.contacts)
      /\ Len(s.contacts) <= Len(t.contacts)
  BY <1>1, UpsertGood
<1>3. u = SetRatchet(t, t.contacts[at].id, who.keys)
  BY DEF Installs, InstallContact
<1>4. disk' = d \/ disk' = ForDisk(u)
  BY DEF Installs, InstallContact
<1>5. /\ Whole(u) /\ (Fitting(s) => Fitting(u))
      /\ u.contacts = t.contacts /\ u.invites = s.invites
      /\ StartsClean(u, s)
  BY <1>1, <1>2, <1>3, InstalledKeeps
<1>6. Whole(mem') /\ Whole(disk')
  BY <1>1, <1>4, <1>5, ForDiskKeeps
<1>7. mixed' = mixed /\ unlocked' = unlocked /\ closed' = closed
      /\ (unlocked \/ installing # {})
  BY Zenon DEF Installs
<1>8. mixed \/ (Fitting(s) /\ Fitting(d))
  BY Zenon DEF SInv
<1>9. Fitting(s) /\ Fitting(d) => Fitting(mem') /\ Fitting(disk')
  BY <1>1, <1>4, <1>5, ForDiskKeeps
<1>10. mixed' \/ (Fitting(mem') /\ Fitting(disk'))
  BY <1>7, <1>8, <1>9, Zenon
<1>11. unlocked'
  BY <1>7, Zenon DEF SInv
<1> PICK gone : gone = closed
  OBVIOUS
<1>12. Ledger(s, gone) /\ Ledger(d, gone)
  BY DEF SInv
<1>13. Ledger(u, gone)
  BY <1>5, <1>12, FewerInvites
<1>14. Ledger(disk', gone)
  BY <1>4, <1>5, <1>12, <1>13, ForDiskKeeps
<1>15. SInv'
  <2>1. Ledger(mem', closed') /\ Ledger(disk', closed')
    BY <1>7, <1>13, <1>14
  <2> QED
    BY <1>6, <1>10, <1>11, <2>1, Zenon DEF SInv
<1>16. Len(s.contacts) \in Nat /\ Len(t.contacts) \in Nat
  BY <1>1, <1>2, Shape DEF Good
<1> QED
  BY <1>2, <1>5, <1>15, <1>16

(* The confirmed deletion removes the one record that has the staged id. *)
LEMMA DeletionIs ==
    ASSUME IInv, ConfirmDelete
    PROVE  LET i == CHOOSE i \in DOMAIN mem.contacts : mem.contacts[i].id = staged
           IN  /\ Good(mem') /\ Removed(mem', mem, i) /\ mem.contacts[i].id = staged
               /\ selected' = SelectionAfterRemoval(i)
<1>1. staged \in Ids(mem) /\ mem' = DeleteContactSecure(mem, staged) /\ Good(mem)
  BY DEF ConfirmDelete, IInv
<1> DEFINE i == CHOOSE i \in DOMAIN mem.contacts : mem.contacts[i].id = staged
<1>2. Good(mem') /\ Removed(mem', mem, i)
  BY <1>1, DeleteGood
<1>3. mem.contacts[i].id = staged
  BY <1>1, PositionOf
<1>4. selected' = SelectionAfterRemoval(i)
  BY DEF ConfirmDelete
<1> QED
  BY <1>2, <1>3, <1>4

(* A deletion keeps it. *)
LEMMA DeletionKeeps ==
    ASSUME IInv, SInv, ConfirmDelete
    PROVE  SInv'
<1> PICK s : s = mem
  OBVIOUS
<1> PICK d : d = disk
  OBVIOUS
<1> PICK t : t = mem'
  OBVIOUS
<1> PICK gone : gone = closed
  OBVIOUS
<1>1. PICK i : Good(t) /\ Removed(t, s, i)
  BY DeletionIs
<1>2. Good(s) /\ Whole(s) /\ Whole(d) /\ Ledger(s, gone) /\ Ledger(d, gone)
  BY DEF IInv, SInv
<1>3. Whole(t) /\ (Fitting(s) => Fitting(t))
  BY <1>1, <1>2, RemovedKeeps
<1>4. disk' = d \/ disk' = ForDisk(t)
  BY DEF ConfirmDelete, Persist
<1>5. mixed' = mixed /\ closed' = closed /\ unlocked' = unlocked /\ unlocked
  BY DEF ConfirmDelete, history, Free
<1>6. mixed \/ (Fitting(s) /\ Fitting(d))
  BY Zenon DEF SInv
<1>7. Fitting(s) /\ Fitting(d) => Fitting(mem') /\ Fitting(disk')
  BY <1>2, <1>3, <1>4, ForDiskKeeps
<1>8. mixed' \/ (Fitting(mem') /\ Fitting(disk'))
  BY <1>5, <1>6, <1>7, Zenon
<1>9. Ledger(t, gone)
  BY <1>1, <1>2, FewerInvites DEF Removed
<1>10. Whole(mem') /\ Whole(disk') /\ Ledger(mem', gone) /\ Ledger(disk', gone)
  BY <1>2, <1>3, <1>4, <1>9, ForDiskKeeps
<1>11. Ledger(mem', closed') /\ Ledger(disk', closed')
  BY <1>5, <1>10
<1> QED
  BY <1>5, <1>8, <1>10, <1>11, Zenon DEF SInv

(* A line is sent: the ratchet from memory comes under the id on disk.  Unless the record     *)
(* there has other keys, it fits.                                                           *)
LEMMA SendKeeps ==
    ASSUME IInv, SInv, NEW i \in DOMAIN mem.contacts, SendText(i)
    PROVE  SInv'
<1> PICK s : s = mem
  OBVIOUS
<1> PICK d : d = disk
  OBVIOUS
<1> PICK gone : gone = closed
  OBVIOUS
<1> PICK id : id = s.contacts[i].id
  OBVIOUS
<1>1. PICK r \in s.ratchets : r.id = id /\ disk' = ForDisk(SetRatchet(d, id, r.peer))
  BY DEF SendText
<1>2. /\ mem' = mem /\ closed' = closed /\ unlocked' = unlocked /\ unlocked
      /\ mixed' = (mixed \/ \E c \in Range(d.contacts) :
                              c.id = id /\ c.who.keys # s.contacts[i].who.keys)
  BY DEF SendText, ui, AtPrompt, Free
<1>3. Good(s) /\ Good(d) /\ Whole(s) /\ Whole(d) /\ Ledger(s, gone) /\ Ledger(d, gone)
  BY DEF IInv, SInv
<1> PICK t : t = SetRatchet(d, id, r.peer)
  OBVIOUS
<1>4. /\ Whole(t) /\ t.invites = d.invites /\ t.contacts = d.contacts
      /\ t.ratchets = {q \in d.ratchets : q.id # id} \cup {[id |-> id, peer |-> r.peer]}
  BY <1>3, SetRatchetKeeps, SetRatchetGood
<1>5. Ledger(t, gone)
  BY <1>3, <1>4, FewerInvites
<1>6. Whole(disk') /\ Ledger(disk', gone)
  BY <1>1, <1>4, <1>5, ForDiskKeeps
<1>7. i \in 1 .. Len(s.contacts)
  BY <1>3, Shape DEF Good
<1>8. ASSUME Fitting(s), Fitting(d),
             ~ \E c \in Range(d.contacts) : c.id = id /\ c.who.keys # s.contacts[i].who.keys
      PROVE  Fitting(disk')
  <2>1. r.peer = s.contacts[i].who.keys
    BY <1>1, <1>7, <1>8 DEF Fitting
  <2>2. ASSUME NEW j \in 1 .. Len(t.contacts), NEW q \in t.ratchets, q.id = t.contacts[j].id
        PROVE  q.peer = t.contacts[j].who.keys
    <3>1. CASE q \in d.ratchets
      BY <1>4, <1>8, <2>2, <3>1 DEF Fitting
    <3>2. CASE q = [id |-> id, peer |-> r.peer]
      <4>1. d.contacts[j] \in Range(d.contacts)
        BY <1>3, <1>4, <2>2, Shape DEF Good, Range
      <4> QED
        BY <1>4, <1>8, <2>1, <2>2, <3>2, <4>1
    <3> QED
      BY <1>4, <3>1, <3>2
  <2>3. Fitting(t)
    BY <2>2 DEF Fitting
  <2> QED
    BY <1>1, <1>4, <2>3, ForDiskKeeps
<1>9. mixed \/ (Fitting(s) /\ Fitting(d))
  BY Zenon DEF SInv
<1>10. mixed' \/ (Fitting(mem') /\ Fitting(disk'))
  BY <1>2, <1>8, <1>9, Zenon
<1>11. Whole(mem') /\ Ledger(mem', closed') /\ Ledger(disk', closed')
  BY <1>2, <1>3, <1>6
<1> QED
  BY <1>2, <1>6, <1>10, <1>11, Zenon DEF SInv

(* An empty session is sound. *)
LEMMA NoSessionKeeps ==
    ASSUME NEW gone
    PROVE  Whole(NoSession) /\ Fitting(NoSession) /\ Ledger(NoSession, gone)
<1>1. 1 .. Len(NoSession.contacts) = {} /\ NoSession.invites = {}
  BY DEF NoSession
<1>2. UsedIds(NoSession) = {}
  BY DEF UsedIds, Ids, NoSession
<1> QED
  BY <1>1, <1>2, FS_EmptySet DEF Whole, Fitting, Ledger

(* Locking and crashing keep it. *)
LEMMA LoseKeeps ==
    ASSUME SInv, LoseMemory, disk' = disk \/ disk' = ForDisk(mem)
    PROVE  SInv'
<1>1. /\ mem' = NoSession /\ mixed' = mixed /\ closed' = closed
      /\ selected' = 0 /\ installing' = {}
  BY DEF LoseMemory, history
<1>2. Whole(mem) /\ Whole(disk) /\ Ledger(mem, closed) /\ Ledger(disk, closed)
  BY DEF SInv
<1>3. Whole(disk') /\ Ledger(disk', closed) /\ (Fitting(mem) /\ Fitting(disk) => Fitting(disk'))
  BY <1>2, ForDiskKeeps
<1>4. mixed \/ (Fitting(mem) /\ Fitting(disk))
  BY Zenon DEF SInv
<1>5. Whole(mem') /\ Fitting(mem') /\ Ledger(mem', closed') /\ Ledger(disk', closed')
  BY <1>1, <1>3, NoSessionKeeps
<1>6. mixed' \/ (Fitting(mem') /\ Fitting(disk'))
  BY <1>1, <1>3, <1>4, <1>5, Zenon
<1> QED
  BY <1>1, <1>3, <1>5, <1>6, Zenon DEF SInv

(* The second invariant holds at first ... *)
LEMMA InitSInv == Init => SInv
<1> SUFFICES ASSUME Init PROVE SInv
  OBVIOUS
<1>1. mem = NoSession /\ disk = NoSession /\ selected = 0 /\ installing = {}
  BY DEF Init
<1> QED
  BY <1>1, NoSessionKeeps, Zenon DEF SInv

(* ... and after every step. *)
LEMMA NextSInv == IInv /\ SInv /\ [Next]_vars => SInv'
<1> SUFFICES ASSUME IInv, SInv, [Next]_vars PROVE SInv'
  OBVIOUS
<1>1. CASE KeptBook
  BY <1>1, KeptKeeps
<1>2. CASE \E who \in Owners : Installs(who)
  BY <1>2, InstallKeeps
<1>3. CASE ConfirmDelete
  BY <1>3, DeletionKeeps
<1>4. CASE \E i \in DOMAIN mem.contacts : SendText(i)
  BY <1>4, SendKeeps
<1>5. CASE LoseMemory /\ (disk' = disk \/ disk' = ForDisk(mem))
  BY <1>5, LoseKeeps
<1>6. CASE Unlock
  <2>1. mem' = disk /\ disk' = disk /\ mixed' = mixed /\ closed' = closed /\ unlocked'
    BY <1>6 DEF Unlock, history
  <2>2. /\ Whole(disk) /\ (mixed \/ (Fitting(mem) /\ Fitting(disk)))
        /\ Ledger(disk, closed)
    BY Zenon DEF SInv
  <2> QED
    BY <2>1, <2>2, Zenon DEF SInv
<1> QED
  BY <1>1, <1>2, <1>3, <1>4, <1>5, <1>6, Kinds

(* Both invariants hold throughout. *)
LEMMA BothInvariants == Spec => [](IInv /\ SInv)
<1>1. Init => IInv /\ SInv
  BY InitIInv, InitSInv
<1>2. (IInv /\ SInv) /\ [Next]_vars => (IInv /\ SInv)'
  BY NextIInv, NextSInv
<1> QED
  BY <1>1, <1>2, PTL DEF Spec

-----------------------------------------------------------------------------
(* The ratchet under a contact's id is with the keys of its record, in memory and on disk,   *)
(* for any number of contacts, whatever links, invites and replies replaced what and         *)
(* whatever was deleted, failed or crashed in between; except after a line was saved with     *)
(* the keys of a link whose own save had failed.                                            *)
THEOREM SessionsAlwaysFit == Spec => []SessionsFitContacts
<1>1. IInv /\ SInv => SessionsFitContacts
  <2> SUFFICES ASSUME IInv, SInv, ~mixed, NEW s \in {mem, disk},
                      NEW c \in Range(s.contacts), NEW r \in s.ratchets, r.id = c.id
               PROVE  r.peer = c.who.keys
    BY Zenon DEF SessionsFitContacts
  <2>1. Fitting(s) /\ BookIn(s.contacts)
    BY DEF SInv, IInv, Good
  <2>2. PICK i \in 1 .. Len(s.contacts) : c = s.contacts[i]
    BY <2>1, Shape DEF Range
  <2> QED
    BY <2>1, <2>2 DEF Fitting
<1> QED
  BY <1>1, BothInvariants, PTL

(* fresh_contact_id: a contact that is new does not come verified, blocked or muted, and      *)
(* neither a mark nor a ratchet of another contact changes with it.                         *)
THEOREM NewContactsAreClean == Spec => NewContactsStartClean
<1> DEFINE Clean == Len(mem'.contacts) > Len(mem.contacts) /\ unlocked =>
                      /\ Last(mem'.contacts).id \notin mem'.verified \cup mem'.blocked \cup mem'.muted
                      /\ mem'.verified = mem.verified
                      /\ mem.ratchets \subseteq mem'.ratchets
<1>1. ASSUME IInv, SInv, [Next]_vars PROVE Clean
  <2>1. Len(mem.contacts) \in Nat
    BY <1>1, Shape DEF IInv, Good
  <2>2. CASE \E who \in Owners : Installs(who)
    <3>1. StartsClean(mem', mem)
      BY <1>1, <2>2, InstallKeeps
    <3> QED
      BY <3>1 DEF StartsClean, Last
  <2>3. CASE KeptBook \/ \E i \in DOMAIN mem.contacts : SendText(i)
    <3>1. Len(mem'.contacts) = Len(mem.contacts)
      BY <2>3 DEF KeptBook, SameContacts, SendText
    <3> QED
      BY <2>1, <3>1
  <2>4. CASE ConfirmDelete
    <3>1. Len(mem'.contacts) = Len(mem.contacts) - 1
      BY <1>1, <2>4, DeletionIs DEF Removed
    <3> QED
      BY <2>1, <3>1
  <2>5. CASE LoseMemory
    <3>1. Len(mem'.contacts) = 0
      BY <2>5 DEF LoseMemory, NoSession
    <3> QED
      BY <2>1, <3>1
  <2>6. CASE Unlock
    BY <2>6 DEF Unlock
  <2> HIDE DEF Clean
  <2> QED
    BY <1>1, <2>2, <2>3, <2>4, <2>5, <2>6, Kinds
<1>2. IInv /\ SInv /\ [Next]_vars => [Clean]_vars
  BY <1>1
<1>3. Spec => [][Clean]_vars
  BY <1>2, BothInvariants, PTL DEF Spec
<1> QED
  BY <1>3 DEF NewContactsStartClean

(* "Accepted once and never twice": an invite whose use or withdrawal was saved is in neither *)
(* ledger any more, so that no reply to it starts a session, pasted or come in a frame.      *)
THEOREM ClosedInvitesAreClosed == Spec => ClosedInvitesStayClosed
<1> DEFINE Closed == installing = {} /\ installing' # {} =>
                       \A e \in mem.invites \ mem'.invites :
                          time < e.expires => e.id \notin closed
<1>1. SInv => Closed
  BY DEF SInv, Ledger
<1>2. IInv /\ SInv => [Closed]_vars
  BY <1>1
<1>3. Spec => [][Closed]_vars
  BY <1>2, BothInvariants, PTL DEF Spec
<1> QED
  BY <1>3 DEF ClosedInvitesStayClosed

(* fix_selection_after_contact_removal: after a deletion the selected contact is the one it   *)
(* was, or none if just that one was deleted.                                               *)
THEOREM SelectionIsKept == Spec => SelectionStays
<1> DEFINE Stays == Len(mem'.contacts) < Len(mem.contacts) /\ unlocked' /\ selected # 0 =>
                      StillSelected(mem.contacts[selected].id)
<1>1. ASSUME IInv, SInv, [Next]_vars PROVE Stays
  <2>1. Good(mem) /\ Len(mem.contacts) \in Nat /\ selected \in 0 .. Len(mem.contacts)
    BY <1>1, Shape DEF IInv, Good
  <2>2. CASE \E who \in Owners : Installs(who)
    <3>1. Len(mem'.contacts) >= Len(mem.contacts) /\ Good(mem')
      BY <1>1, <2>2, InstallKeeps, NextIInv DEF IInv
    <3>2. Len(mem'.contacts) \in Nat
      BY <3>1, Shape DEF Good
    <3> QED
      BY <2>1, <3>1, <3>2
  <2>3. CASE KeptBook \/ \E i \in DOMAIN mem.contacts : SendText(i)
    <3>1. Len(mem'.contacts) = Len(mem.contacts)
      BY <2>3 DEF KeptBook, SameContacts, SendText
    <3> QED
      BY <2>1, <3>1
  <2>4. CASE ConfirmDelete
    <3> SUFFICES ASSUME selected # 0
                 PROVE  StillSelected(mem.contacts[selected].id)
      OBVIOUS
    <3> PICK s : s = mem
      OBVIOUS
    <3> PICK t : t = mem'
      OBVIOUS
    <3>1. PICK i : /\ Good(t) /\ Removed(t, s, i) /\ s.contacts[i].id = staged
                   /\ selected' = SelectionAfterRemoval(i)
      BY <1>1, <2>4, DeletionIs
    <3> DEFINE n == Len(s.contacts)
    <3>2. /\ n \in Nat /\ i \in 1 .. n /\ selected \in 1 .. n /\ Len(t.contacts) = n - 1
          /\ DOMAIN t.contacts = 1 .. n - 1
          /\ \A j \in 1 .. n - 1 : t.contacts[j] = s.contacts[IF j < i THEN j ELSE j + 1]
      BY <2>1, <3>1, Shape DEF Removed, Good
    <3>3. \A j, k \in 1 .. n : s.contacts[j].id = s.contacts[k].id => j = k
      BY <1>1 DEF SInv, Whole
    <3> HIDE DEF n
    <3>4. ASSUME selected = i PROVE StillSelected(mem.contacts[selected].id)
      <4>1. selected' = 0
        BY <3>1, <3>2, <3>4 DEF SelectionAfterRemoval
      <4>2. s.contacts[selected].id \notin Ids(t)
        <5> SUFFICES ASSUME NEW j \in 1 .. n - 1, t.contacts[j].id = s.contacts[i].id
                     PROVE  FALSE
          BY <3>2, <3>4 DEF Ids
        <5> DEFINE k == IF j < i THEN j ELSE j + 1
        <5>1. k \in 1 .. n /\ k # i
          BY <3>2
        <5>2. t.contacts[j] = s.contacts[k]
          BY <3>2
        <5> HIDE DEF k
        <5> QED
          BY <3>2, <3>3, <5>1, <5>2
      <4> QED
        BY <4>1, <4>2 DEF StillSelected
    <3>5. ASSUME NEW j \in 1 .. n - 1, selected' = j, t.contacts[j] = s.contacts[selected]
          PROVE  StillSelected(mem.contacts[selected].id)
      BY <3>2, <3>5 DEF Ids, StillSelected
    <3>6. CASE selected > i
      <4>1. selected' = selected - 1
        BY <3>1, <3>2, <3>6 DEF SelectionAfterRemoval
      <4> PICK j : j = selected - 1
        OBVIOUS
      <4>2. j \in 1 .. n - 1 /\ ~(j < i) /\ j + 1 = selected
        BY <3>2, <3>6
      <4>3. t.contacts[j] = s.contacts[selected]
        BY <3>2, <4>2
      <4> QED
        BY <3>5, <4>1, <4>2, <4>3
    <3>7. CASE selected < i
      <4>1. selected' = selected
        BY <3>1, <3>2, <3>7 DEF SelectionAfterRemoval
      <4> PICK j : j = selected
        OBVIOUS
      <4>2. j \in 1 .. n - 1 /\ j < i
        BY <3>2, <3>7
      <4>3. t.contacts[j] = s.contacts[selected]
        BY <3>2, <4>2
      <4> QED
        BY <3>5, <4>1, <4>2, <4>3
    <3> QED
      BY <3>2, <3>4, <3>6, <3>7
  <2>5. CASE LoseMemory
    BY <2>5 DEF LoseMemory
  <2>6. CASE Unlock
    <3>1. ~unlocked
      BY <2>6 DEF Unlock
    <3>2. selected = 0
      BY <1>1, <3>1, Zenon DEF SInv
    <3> QED
      BY <3>2
  <2> HIDE DEF Stays
  <2> QED
    BY <1>1, <2>2, <2>3, <2>4, <2>5, <2>6, Kinds
<1>2. IInv /\ SInv /\ [Next]_vars => [Stays]_vars
  BY <1>1
<1>3. Spec => [][Stays]_vars
  BY <1>2, BothInvariants, PTL DEF Spec
<1> QED
  BY <1>3 DEF SelectionStays
==============================================================================
