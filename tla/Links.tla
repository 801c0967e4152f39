-------------------------------- MODULE Links --------------------------------
(***************************************************************************)
(* The texts peers exchange: contact links, one-time invites and replies.  *)
(*                                                                         *)
(* Keys and signatures are symbols.  A seed stands for the two public keys *)
(* derived from it, an onion for the key of its service, a signature for   *)
(* who signed what.  A text is any recombination of fields and signatures  *)
(* that somebody made: anyone may claim an onion in a link of his own, but *)
(* only its service binds it to a seed.                                    *)
(*                                                                         *)
(* A parser returns the set of what it read: {} is its error.              *)
(***************************************************************************)
EXTENDS Integers, FiniteSets

CONSTANTS
    Onions,       \* labels of 56 characters whose checksum is right
    Seeds,        \* identity seeds
    Owners,       \* which onion is served by a profile of which seed
    Nobody,       \* signs what does not verify; serves an onion that is none
    PeerInvites,  \* ids of invites of others; the random salt goes by the id
    Expiries      \* when those expire

ASSUME LinksAssumption ==
    /\ Owners \subseteq [onion : Onions, keys : Seeds]
    /\ Nobody \notin Onions \cup Seeds
    /\ Expiries \subseteq Nat

Sign(key, message) == [key |-> key, of |-> message]
Verify25519(key, message, sig) == key # Nobody /\ sig = Sign(key, message)

----------------------------------------------------------------------------
(* onion_binding.rs: the service's key signs the two keys of the identity. *)

(* The key in an onion's label, none if its length, version or checksum is wrong. *)
OnionPublicKey(onion) == {onion} \cap Onions

BindingMessage(onion, ed, x) == <<"HashChat-onion-binding-v1", onion, ed, x>>

SignBinding(onion, ed, x) == Sign(onion, BindingMessage(onion, ed, x))

VerifyBinding(onion, ed, x, sig) ==
    \E key \in OnionPublicKey(onion) : Verify25519(key, BindingMessage(key, ed, x), sig)

(* The last field is there or is not; a field that is there has to verify. *)
BindingFits(link) == \A sig \in link.hs : VerifyBinding(link.onion, link.ed, link.x, sig)

----------------------------------------------------------------------------
(* contact_link.rs *)
NormalizeOnionParts(onion) == OnionPublicKey(onion)

CanonicalPayload(onion, x) == <<"v1", onion, x>>

FormatSignedContactLink(seed, onion) ==
    [onion |-> onion, x |-> seed, ed |-> seed, hs |-> {},
     sig |-> Sign(seed, CanonicalPayload(onion, seed))]

(* The stored onion key must belong to the onion that is named. *)
FormatBoundContactLink(seed, onion, onionKey) ==
    IF onionKey # onion THEN {}
    ELSE {[FormatSignedContactLink(seed, onion) EXCEPT !.hs = {SignBinding(onionKey, seed, seed)}]}

ParseSignedContactLink(link) ==
    IF /\ NormalizeOnionParts(link.onion) # {}
       /\ Verify25519(link.ed, CanonicalPayload(link.onion, link.x), link.sig)
       /\ BindingFits(link)
    THEN {[onion |-> link.onion, x |-> link.x, ed |-> link.ed, bound |-> link.hs # {}]}
    ELSE {}

(* tor_socks.rs: what a connection may be opened to. *)
IsOnionDestination(dest) == OnionPublicKey(dest) # {}

(* What the TUI takes from a parsed link or invite: one that does not prove control of its *)
(* onion is refused.                                                                       *)
BoundContact(parsed) ==
    {[onion |-> c.onion, keys |-> c.ed] :
        c \in {p \in parsed : IsOnionDestination(p.onion) /\ p.bound}}

----------------------------------------------------------------------------
(* invite.rs *)
InvitePayload(onion, x, id, expires) == <<"hc-invite-v1", onion, x, id, expires>>

FormatInvite(seed, onion, id, expires) ==
    [onion |-> onion, x |-> seed, ed |-> seed, id |-> id, expires |-> expires,
     sig |-> Sign(seed, InvitePayload(onion, seed, id, expires)),
     hs |-> IF [onion |-> onion, keys |-> seed] \in Owners
            THEN {SignBinding(onion, seed, seed)} ELSE {}]

(* parse_invite, up to its last check, that the invite has not expired. *)
ReadInvite(link) ==
    IF /\ NormalizeOnionParts(link.onion) # {}
       /\ Verify25519(link.ed, InvitePayload(link.onion, link.x, link.id, link.expires), link.sig)
       /\ BindingFits(link)
    THEN {[onion |-> link.onion, x |-> link.x, ed |-> link.ed, id |-> link.id,
           expires |-> link.expires, bound |-> link.hs # {}]}
    ELSE {}

ParseInvite(read, now) == {invite \in read : now < invite.expires}

(* Keyed by the salt, which goes by the id. *)
ReplyTag(id, link) == [salt |-> id, over |-> link]

FormatInviteReply(id, link) == [id |-> id, tag |-> ReplyTag(id, link), link |-> link]

(* What an invite that is taken out of the ledger gives for a reply: the tag, then the link. *)
AcceptReply(id, reply) ==
    IF reply.id = id /\ reply.tag = ReplyTag(id, reply.link)
    THEN BoundContact(ParseSignedContactLink(reply.link))
    ELSE {}

(* The frame is sealed to the inviter's static key under the salt of the invite. *)
InviteHelloFrame(inviter, id, link) ==
    [key |-> [dh |-> inviter, salt |-> id], reply |-> FormatInviteReply(id, link)]

(* The invites of the ledger whose key opens the frame. *)
OpenedBy(local, frame, ids) == {id \in ids : frame.key = [dh |-> local, salt |-> id]}

----------------------------------------------------------------------------
(* The texts there can be.  Everyone can claim every onion; only its service binds it. *)

(* What the TUI shows as its own link: none as long as the onion key does not fit. *)
MyContactLink(p) == FormatBoundContactLink(p.keys, p.onion, p.onion)

ContactLinksMade ==
    {FormatSignedContactLink(k, o) : k \in Seeds, o \in Onions}
    \cup UNION {MyContactLink(p) : p \in Owners}

InvitesMade ==
    {FormatInvite(k, o, i, e) : k \in Seeds, o \in Onions, i \in PeerInvites, e \in Expiries}

Forged == Sign(Nobody, <<>>)
SigsIn(made) == {link.sig : link \in made} \cup {Forged}
BindingsIn(made) == {link.hs : link \in made} \cup {{Forged}}

ContactTexts ==
    [onion : Onions \cup {Nobody}, x : Seeds, ed : Seeds,
     sig : SigsIn(ContactLinksMade), hs : BindingsIn(ContactLinksMade)]

InviteTexts ==
    [onion : Onions \cup {Nobody}, x : Seeds, ed : Seeds, id : PeerInvites, expires : Expiries,
     sig : SigsIn(InvitesMade), hs : BindingsIn(InvitesMade)]

(* Replies to an invite: of somebody who has it, with a link of any kind; or with the tag of  *)
(* another link.                                                                           *)
ReplyTexts(id) ==
    {FormatInviteReply(id, link) : link \in ContactLinksMade}
    \cup {[id |-> id, tag |-> ReplyTag(id, l1), link |-> l2] :
             l1 \in ContactLinksMade, l2 \in ContactLinksMade}

HelloFrames(id) == {InviteHelloFrame(k, id, link) : k \in Seeds, link \in ContactLinksMade}

(* What can come of them.                                                  *)
ContactsLinked == UNION {BoundContact(ParseSignedContactLink(link)) : link \in ContactTexts}
InvitesRead == UNION {ReadInvite(link) : link \in InviteTexts}
Replied(id) == {AcceptReply(id, reply) : reply \in ReplyTexts(id)}
Greeted(local, id) ==
    {AcceptReply(id, frame.reply) :
        frame \in {f \in HelloFrames(id) : id \in OpenedBy(local, f, {id})}}

============================================================================
