------------------------------- MODULE Channels -------------------------------
(***************************************************************************)
(* The rendezvous connections of hbbs: the handshake that opens one        *)
(* (handle_listener_inner), the loop that reads its frames, and the        *)
(* channels through which other tasks push messages into it (tcp_peers)    *)
(* (rendezvous_server.rs).                                                 *)
(*                                                                         *)
(* Key exchange and device proof are messages with a known outcome here:   *)
(* the claims an unbound key goes through are DeviceKeys, what an asking   *)
(* frame starts is SessionBroker.  Connections, the operator and the tasks *)
(* that push run concurrently; a lock is held for one action.              *)
(***************************************************************************)
EXTENDS Naturals, Sequences

CONSTANTS Conns,    \* connections; one that has closed does not come back
          Ids,      \* peer ids; a provisioned machine holds the key bound to its id
          NoId, NoConn,
          MaxWire,  \* bound: frames under way on a connection
          MaxQueue  \* bound: pushes waiting in a channel

ASSUME ChannelAssumption ==
  NoId \notin Ids /\ NoConn \notin Conns /\ MaxWire \in Nat \ {0} /\ MaxQueue \in Nat \ {0}

VARIABLES
  mode,    \* KEY_EXCHANGE_MODE
  require, \* require_device_key
  pinned,  \* ids whose device key is registered
  conn,    \* the connection's task: handshake, who it proved to be, its frame
  client,  \* whether the client seals what it sends
  wire,    \* frames sent to the server
  queue,   \* the channel of the connection: messages in push_rx
  peers,   \* tcp_peers: id -> the connection whose channel it holds
  latest   \* history: the connection that registered as the id last

channelVars == <<mode, require, pinned, conn, client, wire, queue, peers, latest>>

Modes == {"off", "offer", "require"}
Replies == {"exchange", "auth"}
RequestFrames == {"register", "ask", "end"}
\* revoked: the key of the connection was gone when the frame was sent.
\* id: what it proves or registers as, NoId if it does neither.
ChannelFrames == [kind : Replies \cup RequestFrames, id : Ids \cup {NoId}, sealed : BOOLEAN,
                  revoked : BOOLEAN]
NoFrame == [kind |-> "end", id |-> NoId, sealed |-> FALSE, revoked |-> FALSE]

Task0 == [at |-> "none", proved |-> NoId, secured |-> FALSE, frame |-> NoFrame]
Closed == [Task0 EXCEPT !.at = "closed"]

ChannelInit ==
  /\ mode \in Modes /\ require \in BOOLEAN /\ pinned \in SUBSET Ids
  /\ conn = [c \in Conns |-> Task0]
  /\ client = [c \in Conns |-> FALSE]
  /\ wire = [c \in Conns |-> <<>>] /\ queue = [c \in Conns |-> 0]
  /\ peers = [i \in Ids |-> NoConn] /\ latest = [i \in Ids |-> NoConn]

Open(c) == conn[c].at \notin {"none", "closed"}

-----------------------------------------------------------------------------
(* The client.                                                             *)

Sends(c, kind, id) ==
  /\ Open(c) /\ Len(wire[c]) < MaxWire
  /\ wire' = [wire EXCEPT ![c] = Append(@, [kind |-> kind, id |-> id, sealed |-> client[c],
       revoked |-> conn[c].proved # NoId /\ conn[c].proved \notin pinned])]

\* A reply to the offer, in time or late; the client seals from then on.
ClientReplies(c, kind, id) ==
  /\ mode # "off" /\ ~client[c]
  /\ Sends(c, kind, id)
  /\ client' = [client EXCEPT ![c] = TRUE]
  /\ UNCHANGED <<mode, require, pinned, conn, queue, peers, latest>>

ClientAsks(c, kind, id) ==
  /\ Sends(c, kind, id)
  /\ UNCHANGED <<mode, require, pinned, conn, client, queue, peers, latest>>

-----------------------------------------------------------------------------
(* The connection's task.                                                  *)

Task(c, rec) == conn' = [conn EXCEPT ![c] = rec]

\* A connection is accepted, and offered the handshake.  (A WebSocket is closed at once.)
Accepted(c) ==
  /\ conn[c].at = "none"
  /\ Task(c, [conn[c] EXCEPT !.at = IF mode = "off" THEN "loop" ELSE "offered"])
  /\ UNCHANGED <<mode, require, pinned, client, wire, queue, peers, latest>>

\* The mutant of a task that unregisters itself as it ends.
Close_Sweeps(c) ==
  /\ conn' = [conn EXCEPT ![c] = Closed] /\ client' = [client EXCEPT ![c] = FALSE]
  /\ wire' = [wire EXCEPT ![c] = <<>>] /\ queue' = [queue EXCEPT ![c] = 0]
  /\ peers' = [i \in Ids |-> IF conn[c].proved = i THEN NoConn ELSE peers[i]]
  /\ UNCHANGED <<mode, require, pinned, latest>>

\* The task returns: its channel and its write half go, its entries in tcp_peers stay.
Close(c) ==
  /\ conn' = [conn EXCEPT ![c] = Closed] /\ client' = [client EXCEPT ![c] = FALSE]
  /\ wire' = [wire EXCEPT ![c] = <<>>] /\ queue' = [queue EXCEPT ![c] = 0]
  /\ UNCHANGED <<mode, require, pinned, peers, latest>>

\* require_device_key, then --key-exchange=require, for a connection that enters the loop
\* as rec.
Enter(c, rec) ==
  IF (rec.proved = NoId /\ require) \/ (~rec.secured /\ mode = "require")
    THEN Close(c)
    ELSE /\ Task(c, [rec EXCEPT !.at = "loop"])
         /\ wire' = [wire EXCEPT ![c] = IF rec.secured THEN Tail(@) ELSE @]
         /\ UNCHANGED <<mode, require, pinned, client, queue, peers, latest>>

\* The one bounded read of the handshake.  A reply that does not open, or that proves a key
\* which is not pinned, ends the connection; a frame that is no reply waits in `pending',
\* that is, in front of the wire.
Reply(c) ==
  LET f == Head(wire[c]) IN
  /\ conn[c].at = "offered" /\ wire[c] # <<>>
  /\ \/ f.kind = "exchange" /\ Enter(c, [conn[c] EXCEPT !.secured = TRUE])
     \/ /\ f.kind = "auth" /\ f.id \in pinned
        /\ Enter(c, [conn[c] EXCEPT !.secured = TRUE, !.proved = f.id])
     \/ f.kind \in Replies /\ Close(c)
     \/ f.kind \in RequestFrames /\ Enter(c, conn[c])

\* KEY_EXCHANGE_TIMEOUT.
ReplyTimesOut(c) == conn[c].at = "offered" /\ Enter(c, conn[c])

\* Mutant: the key is looked at only when it is proved.
ReadFrame_Unchecked(c) ==
  LET f == Head(wire[c]) IN
  /\ conn[c].at = "loop" /\ wire[c] # <<>>
  /\ IF f.sealed # conn[c].secured THEN Close(c)
     ELSE /\ Task(c, [conn[c] EXCEPT !.at = "frame", !.frame = f])
          /\ wire' = [wire EXCEPT ![c] = Tail(@)]
          /\ UNCHANGED <<mode, require, pinned, client, queue, peers, latest>>

\* The next frame: decrypted (one that was not sealed as agreed does not open, or does not
\* parse), and the key of the connection still pinned.
ReadFrame(c) ==
  LET f == Head(wire[c]) IN
  /\ conn[c].at = "loop" /\ wire[c] # <<>>
  /\ IF f.sealed # conn[c].secured \/ (conn[c].proved # NoId /\ conn[c].proved \notin pinned)
       THEN Close(c)
       ELSE /\ Task(c, [conn[c] EXCEPT !.at = "frame", !.frame = f])
            /\ wire' = [wire EXCEPT ![c] = Tail(@)]
            /\ UNCHANGED <<mode, require, pinned, client, queue, peers, latest>>

\* register_peer_push: sweep the closed ones, then insert.
RegisterPush(c, i) ==
  /\ peers' = [j \in Ids |-> IF j = i THEN c
                             ELSE IF peers[j] # NoConn /\ ~Open(peers[j]) THEN NoConn
                             ELSE peers[j]]
  /\ latest' = [latest EXCEPT ![i] = c]

\* handle_tcp for RegisterPk and RegisterPeer.  Another id than the proved one ends the
\* connection, and so does a blocked one at its heartbeat; the verdict of register_pk_core
\* comes after the channel is registered.
HandleRegister(c) ==
  LET i == conn[c].frame.id IN
  /\ conn[c].at = "frame" /\ conn[c].frame.kind = "register"
  /\ \/ /\ conn[c].proved \in {NoId, i}
        /\ RegisterPush(c, i)
        /\ Task(c, [conn[c] EXCEPT !.at = "loop", !.frame = NoFrame])
        /\ UNCHANGED <<mode, require, pinned, client, wire, queue>>
     \/ Close(c)

\* PunchHoleRequest, RequestRelay; that the write half goes to tcp_punch is in SessionBroker.
HandleAsk(c) ==
  /\ conn[c].at = "frame" /\ conn[c].frame.kind = "ask"
  /\ Task(c, [conn[c] EXCEPT !.at = "loop", !.frame = NoFrame])
  /\ UNCHANGED <<mode, require, pinned, client, wire, queue, peers, latest>>

\* Any other frame, a late handshake reply too, is answered or ignored and ends the connection.
HandleOther(c) ==
  /\ conn[c].at = "frame" /\ conn[c].frame.kind \notin {"register", "ask"}
  /\ Close(c)

\* A pushed message is written, or dropped if tcp_punch has the write half.
WritePush(c) ==
  /\ conn[c].at = "loop" /\ queue[c] > 0
  /\ queue' = [queue EXCEPT ![c] = @ - 1]
  /\ UNCHANGED <<mode, require, pinned, conn, client, wire, peers, latest>>

\* 30 s of silence, or the client goes.
LoopEnds(c) == conn[c].at = "loop" /\ Close(c)

-----------------------------------------------------------------------------
(* The others.                                                             *)

\* push_to_peer: into the channel of the id, or by UDP if it has none any more.
PushTo(i) ==
  /\ IF peers[i] # NoConn /\ Open(peers[i])
       THEN /\ queue[peers[i]] < MaxQueue
            /\ queue' = [queue EXCEPT ![peers[i]] = @ + 1]
            /\ UNCHANGED peers
       ELSE peers' = [peers EXCEPT ![i] = NoConn] /\ UNCHANGED queue
  /\ UNCHANGED <<mode, require, pinned, conn, client, wire, latest>>

\* remove_device_key.
Unpin(i) ==
  /\ i \in pinned /\ pinned' = pinned \ {i}
  /\ UNCHANGED <<mode, require, conn, client, wire, queue, peers, latest>>

SetRequire(on) ==
  /\ require # on /\ require' = on
  /\ UNCHANGED <<mode, pinned, conn, client, wire, queue, peers, latest>>

ChannelNext ==
  \/ \E c \in Conns :
       \/ ClientReplies(c, "exchange", NoId)
       \/ ClientAsks(c, "ask", NoId) \/ ClientAsks(c, "end", NoId)
       \/ \E i \in Ids : ClientReplies(c, "auth", i) \/ ClientAsks(c, "register", i)
  \/ \E c \in Conns :
       \/ Accepted(c) \/ Reply(c) \/ ReplyTimesOut(c) \/ ReadFrame(c)
       \/ HandleRegister(c) \/ HandleAsk(c) \/ HandleOther(c) \/ WritePush(c)
       \/ LoopEnds(c)
  \/ \E i \in Ids : PushTo(i) \/ Unpin(i)
  \/ \E on \in BOOLEAN : SetRequire(on)

ChannelSpec == ChannelInit /\ [][ChannelNext]_channelVars

-----------------------------------------------------------------------------
(* Properties.                                                             *)

\* Every variable holds what its code counterpart can hold.
ChannelTypeOK ==
  /\ mode \in Modes /\ require \in BOOLEAN /\ pinned \subseteq Ids
  /\ conn \in [Conns -> [at : {"none", "offered", "loop", "frame", "closed"},
                         proved : Ids \cup {NoId}, secured : BOOLEAN,
                         frame : ChannelFrames \cup {NoFrame}]]
  /\ client \in [Conns -> BOOLEAN]
  /\ wire \in [Conns -> Seq(ChannelFrames)] /\ queue \in [Conns -> 0..MaxQueue]
  /\ peers \in [Ids -> Conns \cup {NoConn}] /\ latest \in [Ids -> Conns \cup {NoConn}]

\* "keeps a closing task from removing an entry a reconnect just replaced"
\* (register_peer_push): while the connection an id registered on last is open, a push for
\* the id goes there, whatever closes, reconnects or is swept meanwhile.
LatestIsReached ==
  \A i \in Ids : latest[i] # NoConn /\ Open(latest[i]) => peers[i] = latest[i]

\* "a device key revoked in the dashboard must not keep punching or relaying on the
\* connection it proved earlier": nothing is done for a frame sent after the revocation.
RevokedIsRefused == \A c \in Conns : ~conn[c].frame.revoked

\* A device-authenticated connection receives pushes for the id it proved and no other,
\* and under --key-exchange=require every open channel is encrypted.
ChannelIsProven ==
  \A i \in Ids : peers[i] # NoConn /\ Open(peers[i]) =>
    /\ conn[peers[i]].proved \in {NoId, i}
    /\ mode = "require" => conn[peers[i]].secured

\* Types, revocation and proofs together (handle_tcp, handle_register_pk).
ChannelInv == ChannelTypeOK /\ RevokedIsRefused /\ ChannelIsProven
=============================================================================
