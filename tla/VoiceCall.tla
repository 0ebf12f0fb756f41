------------------------------ MODULE VoiceCall ------------------------------
(***************************************************************************)
(* Voice calls between two nodes (src/src/network.cpp): the one call       *)
(* record of each node, changed by RPC threads and by the network thread   *)
(* under voice_call_mutex_, and the signals and audio frames that travel   *)
(* as chat messages.                                                       *)
(*                                                                         *)
(* A chat message goes to the peer in question or to everybody, who relay  *)
(* it; mark_chat_seen drops the copies.  So a message arrives once, later  *)
(* than others sent after it, or not at all.  An RPC call changes the      *)
(* record under the lock and sends its message after releasing it: duties  *)
(* holds what a thread has still to send.                                  *)
(***************************************************************************)
EXTENDS Integers, Sequences, FiniteSets, SequencesExt

CONSTANTS
  Party,        \* the two nodes
  MaxCalls,     \* bound: calls of a node in memory or under way
  MaxFrames,    \* bound: frames under way
  RpcThreads,   \* bound: RPC calls under way at a time
  InboxLimit    \* voice_audio_inbox_ holds 64 frames

ASSUME VoiceAssumption ==
  /\ IsFiniteSet(Party) /\ Cardinality(Party) = 2
  /\ MaxCalls \in Nat /\ InboxLimit \in Nat \ {0}

VARIABLES call, duties, air, decoding, inbox, accepted, ignored
voiceVars == <<call, duties, air, decoding, inbox, accepted, ignored>>

\* The record after clear_voice_call_locked; id is call_id, None if ~active.
None == <<"none", 0>>
Cleared == [id |-> None, incoming |-> FALSE, ringing |-> FALSE,
            connected |-> FALSE]
Active(p) == call[p].id # None
Other(p) == CHOOSE q \in Party : q # p
Signal(kind, id) == [kind |-> kind, id |-> id]
Frames == {m \in UNION {duties[p] \cup air[p] : p \in Party} : m.kind = "frame"}

\* clear_voice_call_locked.
Clear(p) == /\ call' = [call EXCEPT ![p] = Cleared]
            /\ inbox' = [inbox EXCEPT ![p] = << >>]

Free == Cardinality(UNION {duties[p] : p \in Party}) < RpcThreads
MustSend(p, m) == duties' = [duties EXCEPT ![p] = @ \cup {m}]

-----------------------------------------------------------------------------
(* RPC threads *)

\* An id that nothing refers to any more is as good as a new one.
InUse == {call[p].id : p \in Party} \cup
         {m.id : m \in UNION {duties[p] \cup air[p] \cup ToSet(decoding[p]) : p \in Party}}
StartCall(p) ==
  /\ ~Active(p) /\ Free
  /\ \E id \in ({p} \X (1..MaxCalls)) \ InUse :
       /\ call' = [call EXCEPT ![p] = [Cleared EXCEPT !.id = id, !.ringing = TRUE]]
       /\ MustSend(p, Signal("offer", id))
       /\ accepted' = accepted \ {id} /\ ignored' = ignored \ {id}
  /\ UNCHANGED <<air, decoding, inbox>>

AcceptCall(p) ==
  /\ call[p].incoming /\ call[p].ringing /\ Free
  /\ call' = [call EXCEPT ![p].connected = TRUE, ![p].ringing = FALSE]
  /\ accepted' = accepted \cup {call[p].id}
  /\ MustSend(p, Signal("answer", call[p].id))
  /\ UNCHANGED <<air, decoding, inbox, ignored>>

\* decline_voice_call and end_voice_call, which differ in the signal.
LeaveCall(p, kind) ==
  /\ Active(p) /\ Free
  /\ Clear(p)
  /\ MustSend(p, Signal(kind, call[p].id))
  /\ UNCHANGED <<air, decoding, accepted, ignored>>

\* send_voice_audio; which sequence number a frame gets is left out.
SendAudio(p) ==
  /\ call[p].connected /\ Free /\ Cardinality(Frames) < MaxFrames
  /\ MustSend(p, Signal("frame", call[p].id))
  /\ UNCHANGED <<call, air, decoding, inbox, accepted, ignored>>

\* dispatch_chat_payload with a route.
Dispatch(p, m) ==
  /\ m \in duties[p]
  /\ air' = [air EXCEPT ![Other(p)] = @ \cup {m}]
  /\ duties' = [duties EXCEPT ![p] = @ \ {m}]
  /\ UNCHANGED <<call, decoding, inbox, accepted, ignored>>

\* Without a route the message is dropped; start_voice_call then clears the
\* record, be it still of its own call or not.
NoRoute(p, m) ==
  /\ m \in duties[p]
  /\ IF m.kind = "offer" THEN Clear(p) ELSE UNCHANGED <<call, inbox>>
  /\ duties' = [duties EXCEPT ![p] = @ \ {m}]
  /\ ignored' = ignored \cup {m.id, call[p].id}
  /\ UNCHANGED <<air, decoding, accepted>>

PullAudio(p) ==
  /\ inbox[p] # << >>
  /\ inbox' = [inbox EXCEPT ![p] = << >>]
  /\ UNCHANGED <<call, duties, air, decoding, accepted, ignored>>

-----------------------------------------------------------------------------
(* The network thread *)

Arrives(p, m) ==
  /\ decoding[p] = << >>
  /\ m \in air[p]
  /\ air' = [air EXCEPT ![p] = @ \ {m}]
  /\ UNCHANGED <<duties, accepted>>

Ignore(m) ==
  ignored' = ignored \cup {m.id} /\ UNCHANGED <<call, inbox>>

\* An offer on which no key can be agreed leaves no call active: as a lost one.
ReceiveOffer(p, m) ==
  /\ m.kind = "offer" /\ Arrives(p, m) /\ UNCHANGED decoding
  /\ IF Active(p) /\ call[p].id # m.id THEN Ignore(m)
     ELSE /\ call' = [call EXCEPT ![p] = [Cleared EXCEPT
                        !.id = m.id, !.incoming = TRUE, !.ringing = TRUE]]
          /\ inbox' = [inbox EXCEPT ![p] = << >>]
          /\ UNCHANGED ignored

\* The mutant: an answer to another call connects this one.
IsForAny(p, m) == Active(p)
IsFor(p, m) == Active(p) /\ call[p].id = m.id

ReceiveAnswer(p, m) ==
  /\ m.kind = "answer" /\ Arrives(p, m) /\ UNCHANGED decoding
  /\ IF ~IsFor(p, m) THEN UNCHANGED <<call, inbox, ignored>>
     ELSE /\ call' = [call EXCEPT ![p].incoming = FALSE, ![p].ringing = FALSE,
                                  ![p].connected = TRUE]
          /\ UNCHANGED <<inbox, ignored>>

\* The mutant: a call that still rings is not taken back.
ReceiveLeaveConnected(p, m) ==
  /\ m.kind \in {"decline", "hangup"} /\ Arrives(p, m) /\ UNCHANGED decoding
  /\ IF call[p].id = m.id /\ call[p].connected THEN Clear(p) ELSE UNCHANGED <<call, inbox>>
  /\ ignored' = IF call[p].id = m.id THEN ignored ELSE ignored \cup {m.id}

ReceiveLeave(p, m) ==
  /\ m.kind \in {"decline", "hangup"} /\ Arrives(p, m) /\ UNCHANGED decoding
  /\ IF IsFor(p, m) THEN Clear(p) /\ UNCHANGED ignored ELSE Ignore(m)

\* handle_voice_frame decrypts the frame with a copy of the key, unlocked ...
DecodeFrame(p, m) ==
  /\ m.kind = "frame" /\ Arrives(p, m)
  /\ decoding' = [decoding EXCEPT ![p] = IF IsFor(p, m) THEN <<m>> ELSE << >>]
  /\ UNCHANGED <<call, inbox, ignored>>

Kept(frames, m) ==
  Append(IF Len(frames) >= InboxLimit THEN Tail(frames) ELSE frames, m)

\* The mutant: the call is not compared again.
QueueFrameUnchecked(p) ==
  /\ decoding[p] # << >>
  /\ inbox' = IF Active(p) THEN [inbox EXCEPT ![p] = Kept(@, decoding[p][1])] ELSE inbox
  /\ decoding' = [decoding EXCEPT ![p] = << >>]
  /\ UNCHANGED <<call, duties, air, accepted, ignored>>

\* ... and compares the call again before the frame joins the inbox.
QueueFrame(p) ==
  /\ decoding[p] # << >>
  /\ inbox' = IF IsFor(p, decoding[p][1])
              THEN [inbox EXCEPT ![p] = Kept(@, decoding[p][1])] ELSE inbox
  /\ decoding' = [decoding EXCEPT ![p] = << >>]
  /\ UNCHANGED <<call, duties, air, accepted, ignored>>

\* A relay or a session is lost with the message.
LoseMessage(p, m) ==
  /\ m \in air[p]
  /\ air' = [air EXCEPT ![p] = @ \ {m}]
  /\ ignored' = ignored \cup {m.id}
  /\ UNCHANGED <<call, duties, decoding, inbox, accepted>>

-----------------------------------------------------------------------------
VoiceInit ==
  /\ call = [p \in Party |-> Cleared]
  /\ duties = [p \in Party |-> {}] /\ air = [p \in Party |-> {}]
  /\ decoding = [p \in Party |-> << >>] /\ inbox = [p \in Party |-> << >>]
  /\ accepted = {} /\ ignored = {}

VoiceNext ==
  \E p \in Party :
    \/ StartCall(p) \/ AcceptCall(p) \/ SendAudio(p) \/ PullAudio(p) \/ QueueFrame(p)
    \/ \E kind \in {"decline", "hangup"} : LeaveCall(p, kind)
    \/ \E m \in duties[p] : Dispatch(p, m) \/ NoRoute(p, m)
    \/ \E m \in air[p] : \/ ReceiveOffer(p, m) \/ ReceiveAnswer(p, m)
                         \/ ReceiveLeave(p, m) \/ DecodeFrame(p, m) \/ LoseMessage(p, m)

VoiceSpec == VoiceInit /\ [][VoiceNext]_voiceVars

-----------------------------------------------------------------------------
(* Properties *)

\* What pullvoicecallaudio plays belongs to the call of the moment, although a
\* frame is decrypted without the lock, and calls end and begin meanwhile on
\* RPC threads (handle_voice_frame, clear_voice_call_locked).
FramesOfThisCall ==
  \A p \in Party : \A i \in DOMAIN inbox[p] : inbox[p][i].id = call[p].id

\* Nobody is connected to a callee who did not accept this very call, however
\* late the answer to an earlier call comes, and whoever else called meanwhile.
ConnectedIsAccepted ==
  \A p \in Party : call[p].connected => call[p].id \in accepted

\* A node stays alone in a call only if a signal of that call was lost, or came
\* while the receiver was in another call or in none (a busy node does not
\* answer an Offer, and nobody times out): once all is sent and delivered, both
\* are in the call, or none is.
AloneOnlyIfIgnored ==
  (\A p \in Party : duties[p] = {} /\ air[p] = {}) =>
    \A p \in Party : call[p].id \notin ignored =>
      call[p].id = None \/ call[Other(p)].id = call[p].id
=============================================================================
