----------------------------- MODULE ScrollWire -----------------------------
(***************************************************************************)
(* The scroll/1 sub-protocol (dogeos-scroll-wire) and the importer that    *)
(* turns its signed announcements into Engine new_payload calls            *)
(* (dogeos-reth-node/src/wire_import.rs).                                  *)
(*                                                                         *)
(* Every connection is a stream polled by the network; all of them share   *)
(* one unbounded event queue, read by the manager.  A peer may reconnect   *)
(* while its old connection lives on.  An announcement is a block body     *)
(* under a key: its header's hash and a signature over that.  Only the     *)
(* engine checks that the body is the header's.  The manager belongs       *)
(* either to the importer task or, when the crate is embedded, to a caller *)
(* that also announces blocks.  The LRU set (external) evicts its oldest   *)
(* entry and does not promote on a lookup; the engine (external) answers   *)
(* or fails.                                                               *)
(***************************************************************************)
EXTENDS Naturals, Sequences

CONSTANTS
  Peers,          \* remote peers
  Announcements,  \* [key, body]: signed blocks that peers may announce
  Authorized,     \* the keys whose signature the configured signer made
  LruSize,        \* LRU_CACHE_SIZE
  NoBlock,        \* no engine call in progress
  NoPeer,         \* owner of a connection that was never opened
  MaxConns,       \* bound: connections opened in a behaviour
  MaxMessages     \* bound: messages received and announced in a behaviour

ASSUME WireAssumption ==
  /\ NoBlock \notin Announcements
  /\ NoPeer \notin Peers
  /\ LruSize \in Nat \ {0} /\ MaxConns \in Nat /\ MaxMessages \in Nat

VARIABLES
  user,         \* who owns the manager: "importer" or "embedder"
  owner,        \* the peer of each connection
  alive,        \* connections whose stream the network still polls
  outbox,       \* number of outbound messages of each connection
  events,       \* the shared event queue
  connections,  \* ScrollWireManager.connections: connection of a peer, or 0
  blocksSeen,   \* the importer's LRU set of keys, oldest first
  importing,    \* the announcement whose new_payload is awaited
  messages,     \* messages so far (bound)
  submitted,    \* history: announcements passed to the engine, in order
  failed        \* history: connections removed because a send failed

wvars == <<user, owner, alive, outbox, events, connections, blocksSeen, importing,
           messages, submitted, failed>>

Conns == 1 .. MaxConns
Opened == {c \in Conns : owner[c] # NoPeer}
InOrder(s) == {s[i] : i \in DOMAIN s}

Established(c) == [kind |-> "established", conn |-> c, block |-> NoBlock]
\* Nothing reads the peer of an announced block.
NewBlock(b) == [kind |-> "block", conn |-> 0, block |-> b]

-----------------------------------------------------------------------------
(* Connections *)

\* into_connection: a new outbound channel, announced to the manager at once.
EstablishedEvents(c) == Append(events, Established(c))

Connect(p) ==
  /\ \E c \in Conns :
       /\ owner[c] = NoPeer /\ \A d \in 1 .. c - 1 : owner[d] # NoPeer
       /\ owner' = [owner EXCEPT ![c] = p]
       /\ alive' = alive \cup {c}
       /\ events' = EstablishedEvents(c)
  /\ UNCHANGED <<user, outbox, connections, blocksSeen, importing, messages,
                 submitted, failed>>

\* poll_next, outbound half: a queued message goes out first.
SendQueued(c) ==
  /\ c \in alive /\ outbox[c] > 0
  /\ outbox' = [outbox EXCEPT ![c] = @ - 1]
  /\ UNCHANGED <<user, owner, alive, events, connections, blocksSeen, importing,
                 messages, submitted, failed>>

\* poll_next, inbound half: a decoded announcement becomes an event.
ReceiveBlock(c) ==
  /\ c \in alive /\ outbox[c] = 0 /\ messages < MaxMessages
  /\ \E b \in Announcements : events' = Append(events, NewBlock(b))
  /\ messages' = messages + 1
  /\ UNCHANGED <<user, owner, alive, outbox, connections, blocksSeen, importing,
                 submitted, failed>>

\* The peer leaves, or its message or signature does not decode: the stream ends
\* and its outbound receiver is dropped.
CloseConnection(c) ==
  /\ c \in alive
  /\ alive' = alive \ {c}
  /\ outbox' = [outbox EXCEPT ![c] = 0]
  /\ UNCHANGED <<user, owner, events, connections, blocksSeen, importing, messages,
                 submitted, failed>>

-----------------------------------------------------------------------------
(* ScrollWireManager *)

\* poll: an established connection replaces the peer's previous one.
Registered_KeepFirst(p, c) == IF connections[p] = 0 THEN c ELSE connections[p]
Registered(p, c) == c

PollEstablished ==
  /\ importing = NoBlock /\ events # <<>> /\ Head(events).kind = "established"
  /\ LET c == Head(events).conn
     IN  connections' = [connections EXCEPT ![owner[c]] = Registered(owner[c], c)]
  /\ events' = Tail(events)
  /\ UNCHANGED <<user, owner, alive, outbox, blocksSeen, importing, messages,
                 submitted, failed>>

\* announce_block: a failed send forgets the connection.
AnnounceBlock(p) ==
  /\ user = "embedder" /\ messages < MaxMessages
  /\ connections[p] # 0
  /\ messages' = messages + 1
  /\ LET c == connections[p]
     IN  IF c \in alive
         THEN /\ outbox' = [outbox EXCEPT ![c] = @ + 1]
              /\ UNCHANGED <<connections, failed>>
         ELSE /\ connections' = [connections EXCEPT ![p] = 0]
              /\ failed' = failed \cup {c}
              /\ UNCHANGED outbox
  /\ UNCHANGED <<user, owner, alive, events, blocksSeen, importing, submitted>>

\* An embedder is handed the announcement.
PollBlock ==
  /\ user = "embedder" /\ events # <<>> /\ Head(events).kind = "block"
  /\ events' = Tail(events)
  /\ UNCHANGED <<user, owner, alive, outbox, connections, blocksSeen, importing,
                 messages, submitted, failed>>

-----------------------------------------------------------------------------
(* DogeosScrollWireEngineImporter::import_event, in the importer's loop *)

\* verify_block_signature, over the header.
Verified(b) == b.key \in Authorized

Seen(b) == b.key \in InOrder(blocksSeen)

\* LruCache::insert.
Inserted(b) ==
  LET s == Append(blocksSeen, b.key)
  IN  IF Len(s) > LruSize THEN Tail(s) ELSE s

\* What a rejected announcement leaves in the LRU set.
AfterReject_Inserted(b) == IF Seen(b) THEN blocksSeen ELSE Inserted(b)
AfterReject(b) == blocksSeen

RejectAnnouncement ==
  /\ user = "importer" /\ importing = NoBlock
  /\ events # <<>> /\ Head(events).kind = "block"
  /\ ~Verified(Head(events).block) \/ Seen(Head(events).block)
  /\ blocksSeen' = AfterReject(Head(events).block)
  /\ events' = Tail(events)
  /\ UNCHANGED <<user, owner, alive, outbox, connections, importing, messages,
                 submitted, failed>>

\* The key is marked as seen before the engine is asked about the body.
SubmitAnnouncement ==
  /\ user = "importer" /\ importing = NoBlock
  /\ events # <<>> /\ Head(events).kind = "block"
  /\ Verified(Head(events).block) /\ ~Seen(Head(events).block)
  /\ blocksSeen' = Inserted(Head(events).block)
  /\ importing' = Head(events).block
  /\ submitted' = Append(submitted, Head(events).block)
  /\ events' = Tail(events)
  /\ UNCHANGED <<user, owner, alive, outbox, connections, messages, failed>>

\* The engine answers or its channel fails; run logs an error and goes on.
AfterAnswer_StopOnError(ok) == IF ok THEN NoBlock ELSE NoPeer
AfterAnswer(ok) == NoBlock

EngineAnswers ==
  /\ importing \in Announcements
  /\ \E ok \in BOOLEAN : importing' = AfterAnswer(ok)
  /\ UNCHANGED <<user, owner, alive, outbox, events, connections, blocksSeen,
                 messages, submitted, failed>>

-----------------------------------------------------------------------------
WInit ==
  /\ user \in {"importer", "embedder"}
  /\ owner = [c \in Conns |-> NoPeer]
  /\ alive = {}
  /\ outbox = [c \in Conns |-> 0]
  /\ events = <<>>
  /\ connections = [p \in Peers |-> 0]
  /\ blocksSeen = <<>> /\ importing = NoBlock /\ messages = 0
  /\ submitted = <<>> /\ failed = {}

ImporterStep ==
  PollEstablished \/ RejectAnnouncement \/ SubmitAnnouncement \/ EngineAnswers

WNext ==
  \/ \E p \in Peers : Connect(p) \/ AnnounceBlock(p)
  \/ \E c \in Conns : SendQueued(c) \/ ReceiveBlock(c) \/ CloseConnection(c)
  \/ PollBlock \/ ImporterStep

WSpec == WInit /\ [][WNext]_wvars

\* The importer is a critical task that the runtime polls, and the engine handle
\* resolves: with a status, or with an error once the engine is gone.
FairWSpec == WSpec /\ WF_wvars(ImporterStep)

-----------------------------------------------------------------------------
(* Properties *)

\* The duplicate filter is exactly the keys of the last LruSize engine submissions,
\* all of them authorized: no announcement that import_event refuses displaces one it
\* accepted, so a key is passed on again only after LruSize others.
SeenIsLastSubmitted ==
  /\ \A i \in DOMAIN submitted : Verified(submitted[i])
  /\ Len(blocksSeen) = IF Len(submitted) < LruSize THEN Len(submitted) ELSE LruSize
  /\ \A i \in DOMAIN blocksSeen :
       blocksSeen[i] = submitted[Len(submitted) - Len(blocksSeen) + i].key

\* Once the manager has caught up with a peer's connections it sends on the newest
\* one, unless a send on that one has failed: a reconnect is never shadowed by the
\* connection it replaces, and a stale one is never restored.
NewestIsRegistered ==
  \A p \in Peers :
    LET mine == {c \in Opened : owner[c] = p}
    IN  \A c \in mine :
          (/\ \A d \in mine : d <= c
           /\ \A e \in InOrder(events) : e # Established(c))
             => connections[p] = (IF c \in failed THEN 0 ELSE c)

\* Every authorized announcement that reached the importer's queue is passed to the
\* engine, or another body under its key is: neither refused announcements nor engine
\* errors before it stop the importer, and no other key shadows it.
AuthorizedIsSubmitted ==
  \A b \in Announcements :
    (/\ user = "importer" /\ Verified(b)
     /\ \E e \in InOrder(events) : e.kind = "block" /\ e.block = b)
      ~> \E i \in DOMAIN submitted : submitted[i].key = b.key

\* The inductive invariant.  Connections are opened in the order of their numbers;
\* their events are queued in that order, and while one is queued so is that of
\* every later connection; a connection that is registered, or whose send has failed,
\* has no event in the queue.
ConnectionEvents == [kind : {"established"}, conn : Conns, block : {NoBlock}]
BlockEvents == [kind : {"block"}, conn : {0}, block : Announcements]
Events == ConnectionEvents \cup BlockEvents
Queued(c) == Established(c) \in InOrder(events)

WTypeOK ==
  /\ user \in {"importer", "embedder"}
  /\ owner \in [Conns -> Peers \cup {NoPeer}] /\ alive \subseteq Conns
  /\ events \in Seq(Events) /\ connections \in [Peers -> 0 .. MaxConns]
  /\ blocksSeen \in Seq(Authorized) /\ submitted \in Seq(Announcements)
  /\ importing \in Announcements \cup {NoBlock} /\ failed \subseteq Conns

OrderInv ==
  /\ \A c \in Opened : \A d \in 1 .. c - 1 : d \in Opened
  /\ \A i \in DOMAIN events :
       events[i].kind = "established" =>
         events[i] = Established(events[i].conn) /\ events[i].conn \in Opened
  /\ \A i, j \in DOMAIN events :
       i < j /\ events[i].kind = "established" /\ events[j].kind = "established" =>
         events[i].conn < events[j].conn
  /\ \A c, d \in Opened : c < d /\ Queued(c) => Queued(d)

RegisteredInv ==
  /\ \A p \in Peers : connections[p] # 0 =>
       owner[connections[p]] = p /\ ~Queued(connections[p])
  /\ \A c \in failed : c \in Opened /\ ~Queued(c)

WInv == WTypeOK /\ OrderInv /\ RegisteredInv /\ NewestIsRegistered /\ SeenIsLastSubmitted

=============================================================================
