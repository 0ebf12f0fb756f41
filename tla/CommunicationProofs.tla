------------------------- MODULE CommunicationProofs -------------------------
(***************************************************************************)
(* For any two nodes and any numbers of calls, threads and frames: what is *)
(* played belongs to the call of the moment, nobody is connected without   *)
(* being accepted, and nobody stays alone in a call unless a signal of it  *)
(* was lost or ignored.  For any nodes that replicate a mail: a receipt    *)
(* becomes verified by a proof of the node it names only.  For any peers,  *)
(* netgroups, limits and bounds: a label is kept from being dialled only   *)
(* while a dial to it is under way, whichever labels a round of            *)
(* connect_known_peers picks.                                              *)
(***************************************************************************)
EXTENDS Peers, VoiceCall, MailReplicas, FiniteSetTheorems, SequenceTheorems, TLAPS

CallId == Party \X (1..MaxCalls)
CallOf == [id : CallId, incoming : BOOLEAN, ringing : BOOLEAN, connected : BOOLEAN]
Leave == {"decline", "hangup"}
Message == [kind : {"offer", "answer", "frame"} \cup Leave, id : CallId]

VoiceTyped ==
  /\ call \in [Party -> CallOf \cup {Cleared}]
  /\ duties \in [Party -> SUBSET Message] /\ air \in [Party -> SUBSET Message]
  /\ decoding \in [Party -> Seq(Message)] /\ inbox \in [Party -> Seq(Message)]

\* A node that is in no call has nothing to play.
InboxEmptyIdle == \A p \in Party : Active(p) \/ inbox[p] = << >>

\* What p has said and the other has not yet heard.
Said(p) == duties[p] \cup air[Other(p)]
Offered(p, i) == Signal("offer", i) \in Said(p)
Left(p, i) == \E kind \in Leave : Signal(kind, i) \in Said(p)

AnswersAccepted ==
  \A p \in Party : \A i \in CallId : Signal("answer", i) \in Said(p) => i \in accepted

AnswersInv == AnswersAccepted /\ ConnectedIsAccepted

\* An offer is under way once, to a node that has not been in this call yet.
OfferOnce ==
  \A p \in Party : \A i \in CallId :
    ~(Signal("offer", i) \in duties[p] /\ Signal("offer", i) \in air[Other(p)])
OffersNew ==
  \A p \in Party : \A i \in CallId :
    Offered(p, i) => call[Other(p)].id # i /\ ~Left(Other(p), i)
\* Whoever left a call is not in it.
LeftIsOut == \A p \in Party : \A i \in CallId : Left(p, i) => call[p].id # i
\* Whoever offers a call is in it, or takes it back.
OfferStands ==
  \A p \in Party : \A i \in CallId :
    Offered(p, i) /\ i \notin ignored => call[p].id = i \/ Left(p, i)
\* Whoever is in a call has the other with him, or is on the way there or back.
NotLeftAlone ==
  \A p \in Party : Active(p) /\ call[p].id \notin ignored =>
    \/ call[Other(p)].id = call[p].id
    \/ Offered(p, call[p].id) \/ Left(Other(p), call[p].id)
TogetherOrTold == OffersNew /\ LeftIsOut /\ OfferStands /\ NotLeftAlone

VoiceInv ==
  /\ VoiceTyped
  /\ InboxEmptyIdle /\ FramesOfThisCall
  /\ AnswersInv
  /\ OfferOnce /\ TogetherOrTold

-----------------------------------------------------------------------------
(* Voice calls: types                                                      *)

LEMMA OtherParty ==
  ASSUME NEW p \in Party
  PROVE  /\ Other(p) \in Party /\ Other(p) # p /\ Other(Other(p)) = p
         /\ \A q \in Party : q = p \/ q = Other(p)
<1>1. IsFiniteSet(Party \ {p}) /\ Cardinality(Party \ {p}) = 1
  BY VoiceAssumption, FS_RemoveElement
<1>2. PICK o : Party \ {p} = {o}
  BY <1>1, FS_Singleton
<1>3. o \in Party /\ o # p /\ \A q \in Party : q = p \/ q = o
  BY <1>2
<1>4. Other(p) = o
  BY <1>3 DEF Other
<1>5. Other(o) = p
  BY <1>3 DEF Other
<1> QED
  BY <1>3, <1>4, <1>5

LEMMA IdTyped ==
  ASSUME VoiceTyped, NEW p \in Party
  PROVE  /\ \/ call[p] \in CallOf /\ call[p].id \in CallId /\ Active(p)
            \/ call[p] = Cleared /\ ~Active(p)
         /\ None \notin CallId
         /\ Active(p) <=> call[p].id \in CallId
         /\ Cleared.id = None /\ ~Cleared.incoming /\ ~Cleared.ringing /\ ~Cleared.connected
<1>1. None \notin CallId
  BY VoiceAssumption DEF None, CallId
<1>2. call[p] \in CallOf \/ call[p] = Cleared
  BY DEF VoiceTyped
<1>3. call[p] \in CallOf => call[p].id \in CallId
  BY DEF CallOf
<1>4. Cleared.id = None /\ ~Cleared.incoming /\ ~Cleared.ringing /\ ~Cleared.connected
  BY DEF Cleared
<1> QED
  BY <1>1, <1>2, <1>3, <1>4 DEF Active

LEMMA MessageTyped ==
  ASSUME VoiceTyped
  PROVE  /\ \A p \in Party : \A m \in duties[p] \cup air[p] :
              m \in Message /\ m = Signal(m.kind, m.id) /\ m.id \in CallId
         /\ \A i \in CallId : \A kind \in {"offer", "answer", "frame"} \cup Leave :
              Signal(kind, i) \in Message
         /\ \A i, j, k, l : Signal(k, i) = Signal(l, j) <=> k = l /\ i = j
         /\ \A k, i : Signal(k, i).kind = k /\ Signal(k, i).id = i
<1>1. ASSUME NEW m \in Message PROVE m = Signal(m.kind, m.id) /\ m.id \in CallId
  BY DEF Message, Signal
<1>2. \A p \in Party : duties[p] \cup air[p] \subseteq Message
  BY DEF VoiceTyped
<1>3. \A i \in CallId : \A kind \in {"offer", "answer", "frame"} \cup Leave :
        Signal(kind, i) \in Message
  BY DEF Message, Signal
<1>4. \A i, j, k, l : Signal(k, i) = Signal(l, j) <=> k = l /\ i = j
  BY DEF Signal
<1>5. \A k, i : Signal(k, i).kind = k /\ Signal(k, i).id = i
  BY DEF Signal
<1> QED
  BY <1>1, <1>2, <1>3, <1>4, <1>5

\* A thread owes a message, sends it, or drops it; one that arrives is no longer
\* under way, unless it was sent twice.
LEMMA OweMessage ==
  ASSUME VoiceTyped, NEW p \in Party, NEW m \in Message, MustSend(p, m), UNCHANGED air
  PROVE  /\ duties' \in [Party -> SUBSET Message]
         /\ duties'[p] = duties[p] \cup {m} /\ Said(p)' = Said(p) \cup {m}
         /\ \A q \in Party : q # p => duties'[q] = duties[q] /\ Said(q)' = Said(q)
<1>1. duties' = [duties EXCEPT ![p] = @ \cup {m}] /\ duties \in [Party -> SUBSET Message]
  BY DEF MustSend, VoiceTyped
<1> QED
  BY <1>1 DEF Said, Other

LEMMA DropDuty ==
  ASSUME VoiceTyped, NEW p \in Party, NEW m,
         duties' = [duties EXCEPT ![p] = @ \ {m}], UNCHANGED air
  PROVE  /\ duties' \in [Party -> SUBSET Message]
         /\ \A q \in Party : Said(q)' \subseteq Said(q) /\ Said(q) \ {m} \subseteq Said(q)'
         /\ \A q \in Party : q # p => Said(q)' = Said(q)
         /\ \A q \in Party : duties'[q] \subseteq duties[q]
<1>1. duties \in [Party -> SUBSET Message]
  BY DEF VoiceTyped
<1> QED
  BY <1>1 DEF Said, Other

LEMMA DropAir ==
  ASSUME VoiceTyped, NEW p \in Party, NEW m \in air[p],
         air' = [air EXCEPT ![p] = @ \ {m}], UNCHANGED duties
  PROVE  /\ air' \in [Party -> SUBSET Message]
         /\ m \in Said(Other(p)) /\ m \notin air'[p] /\ Said(p)' = Said(p)
         /\ \A q \in Party : Said(q)' \subseteq Said(q) /\ Said(q) \ {m} \subseteq Said(q)'
         /\ \A q \in Party : air'[q] \subseteq air[q]
<1>1. air \in [Party -> SUBSET Message]
  BY DEF VoiceTyped
<1>2. air'[p] = air[p] \ {m} /\ \A q \in Party : q # p => air'[q] = air[q]
  BY <1>1
<1>3. \A q \in Party : air'[q] \subseteq air[q] /\ air[q] \ {m} \subseteq air'[q]
  BY <1>2
<1>4. /\ Other(p) \in Party /\ Other(p) # p /\ Other(Other(p)) = p
      /\ \A q \in Party : Other(q) \in Party
  BY OtherParty
<1>5. \A q \in Party : Said(q)' = duties[q] \cup air'[Other(q)]
  BY DEF Said, Other
<1> QED
  BY <1>1, <1>2, <1>3, <1>4, <1>5 DEF Said

LEMMA DispatchSaid ==
  ASSUME VoiceTyped, NEW p \in Party, NEW m, Dispatch(p, m)
  PROVE  /\ duties' \in [Party -> SUBSET Message] /\ air' \in [Party -> SUBSET Message]
         /\ \A q \in Party : Said(q)' = Said(q)
         /\ duties'[p] = duties[p] \ {m} /\ air'[Other(p)] = air[Other(p)] \cup {m}
         /\ \A q \in Party : q # p => duties'[q] = duties[q] /\ air'[Other(q)] = air[Other(q)]
<1>1. /\ duties \in [Party -> SUBSET Message] /\ air \in [Party -> SUBSET Message]
      /\ m \in duties[p] /\ duties' = [duties EXCEPT ![p] = @ \ {m}]
      /\ air' = [air EXCEPT ![Other(p)] = @ \cup {m}]
  BY DEF VoiceTyped, Dispatch
<1>2. \A q \in Party : Other(q) \in Party /\ Other(Other(q)) = q
  BY OtherParty
<1>3. \A q \in Party : Said(q)' = duties'[q] \cup air'[Other(q)]
  BY DEF Said, Other
<1> QED
  BY <1>1, <1>2, <1>3 DEF Said

\* What a change of one record changes.
LEMMA OneRecord ==
  ASSUME VoiceTyped, NEW p \in Party
  PROVE  /\ Clear(p) => /\ call'[p] = Cleared /\ inbox'[p] = << >>
                        /\ call' \in [Party -> CallOf \cup {Cleared}]
                        /\ inbox' \in [Party -> Seq(Message)]
                        /\ \A q \in Party : q # p => call'[q] = call[q] /\ inbox'[q] = inbox[q]
         /\ \A r \in CallOf : call' = [call EXCEPT ![p] = r] =>
              /\ call'[p] = r /\ call' \in [Party -> CallOf \cup {Cleared}]
              /\ \A q \in Party : q # p => call'[q] = call[q]
<1>1. << >> \in Seq(Message)
  OBVIOUS
<1> QED
  BY <1>1 DEF VoiceTyped, Clear

\* The records that a call begins with, and connects to.
LEMMA RingingRecord ==
  ASSUME NEW i \in CallId, NEW r, r = [Cleared EXCEPT !.id = i, !.ringing = TRUE]
  PROVE  r \in CallOf /\ r.id = i /\ ~r.connected
<1>1. Cleared \in [id : CallId \cup {None}, incoming : BOOLEAN, ringing : BOOLEAN,
                  connected : BOOLEAN] /\ ~Cleared.connected
  BY DEF Cleared
<1> QED
  BY <1>1 DEF CallOf

LEMMA ConnectedRecord ==
  ASSUME NEW z \in CallOf, NEW r,
         \/ r = [z EXCEPT !.connected = TRUE, !.ringing = FALSE]
         \/ r = [z EXCEPT !.incoming = FALSE, !.ringing = FALSE, !.connected = TRUE]
  PROVE  r \in CallOf /\ r.id = z.id
<1>1. CASE r = [z EXCEPT !.connected = TRUE, !.ringing = FALSE]
  BY <1>1 DEF CallOf
<1>2. CASE r = [z EXCEPT !.incoming = FALSE, !.ringing = FALSE, !.connected = TRUE]
  BY <1>2 DEF CallOf
<1> QED
  BY <1>1, <1>2

\* An answer given or heard connects a call that is there, and leaves its id.
LEMMA Connects ==
  ASSUME VoiceTyped, NEW p \in Party,
         AcceptCall(p) \/ \E m : ReceiveAnswer(p, m) /\ IsFor(p, m)
  PROVE  /\ Active(p) /\ call' \in [Party -> CallOf \cup {Cleared}]
         /\ call'[p] \in CallOf /\ call'[p].id = call[p].id
         /\ \A q \in Party : q # p => call'[q] = call[q]
<1>1. call[p] \in CallOf /\ Active(p)
  BY IdTyped DEF AcceptCall, IsFor
<1>2. \/ call' = [call EXCEPT ![p] = [call[p] EXCEPT !.connected = TRUE, !.ringing = FALSE]]
      \/ call' = [call EXCEPT ![p] = [call[p] EXCEPT !.incoming = FALSE, !.ringing = FALSE,
                                                      !.connected = TRUE]]
  BY DEF AcceptCall, ReceiveAnswer, VoiceTyped
<1>3. PICK r : /\ \/ r = [call[p] EXCEPT !.connected = TRUE, !.ringing = FALSE]
                  \/ r = [call[p] EXCEPT !.incoming = FALSE, !.ringing = FALSE,
                                          !.connected = TRUE]
               /\ call' = [call EXCEPT ![p] = r]
  BY <1>2, Zenon
<1>4. r \in CallOf /\ r.id = call[p].id
  BY <1>1, <1>3, ConnectedRecord
<1> QED
  BY <1>1, <1>3, <1>4, OneRecord

\* A new call has an id that nothing refers to.
LEMMA StartCallEffect ==
  ASSUME VoiceTyped, NEW p \in Party, StartCall(p)
  PROVE  \E i \in CallId :
           /\ ~Active(p) /\ call'[p] \in CallOf
           /\ call'[p].id = i /\ ~call'[p].connected /\ call' \in [Party -> CallOf \cup {Cleared}]
           /\ \A q \in Party : q # p => call'[q] = call[q]
           /\ MustSend(p, Signal("offer", i)) /\ Signal("offer", i) \in Message
           /\ accepted' = accepted \ {i} /\ ignored' = ignored \ {i}
           /\ \A q \in Party : call[q].id # i
           /\ \A q \in Party : \A m \in duties[q] \cup air[q] \cup Said(q) : m.id # i
<1>1. PICK i \in ({p} \X (1..MaxCalls)) \ InUse :
        /\ call' = [call EXCEPT ![p] = [Cleared EXCEPT !.id = i, !.ringing = TRUE]]
        /\ MustSend(p, Signal("offer", i))
        /\ accepted' = accepted \ {i} /\ ignored' = ignored \ {i}
  BY DEF StartCall
<1>2. i \in CallId
  BY <1>1 DEF CallId
<1>3. PICK r : /\ r = [Cleared EXCEPT !.id = i, !.ringing = TRUE]
               /\ call' = [call EXCEPT ![p] = r]
  BY <1>1, Zenon
<1>4. ~Active(p) /\ r \in CallOf /\ r.id = i /\ ~r.connected
  BY <1>2, <1>3, RingingRecord DEF StartCall
<1>5. Signal("offer", i) \in Message
  BY <1>2, MessageTyped
<1>6. \A q \in Party : call[q].id # i
  BY <1>1 DEF InUse
<1>7. \A q \in Party : \A m \in duties[q] \cup air[q] : m.id # i
  <2>1. \A q \in Party : \A m \in duties[q] \cup air[q] :
          m \in UNION {duties[x] \cup air[x] \cup ToSet(decoding[x]) : x \in Party}
    OBVIOUS
  <2> QED
    BY <1>1, <2>1 DEF InUse
<1>8. \A q \in Party : \A m \in Said(q) : m.id # i
  BY <1>7, OtherParty DEF Said
<1>9. /\ call'[p] = r /\ call' \in [Party -> CallOf \cup {Cleared}]
      /\ \A q \in Party : q # p => call'[q] = call[q]
  BY <1>3, <1>4, OneRecord
<1>10. call'[p] \in CallOf /\ call'[p].id = i /\ ~call'[p].connected
  BY <1>4, <1>9
<1>11. \A q \in Party : \A m \in duties[q] \cup air[q] \cup Said(q) : m.id # i
  BY <1>7, <1>8
<1> HIDE DEF Active, MustSend, Signal
<1>12. MustSend(p, Signal("offer", i)) /\ accepted' = accepted \ {i} /\ ignored' = ignored \ {i}
  BY <1>1
<1> QED
  BY <1>2, <1>4, <1>5, <1>6, <1>9, <1>10, <1>11, <1>12

LEMMA ReceiveOfferEffect ==
  ASSUME VoiceTyped, NEW p \in Party, NEW m \in air[p], ReceiveOffer(p, m)
  PROVE  \/ Active(p) /\ Ignore(m)
         \/ /\ ~Active(p) \/ call[p].id = m.id
            /\ call'[p] \in CallOf /\ call'[p].id = m.id /\ ~call'[p].connected
            /\ call' \in [Party -> CallOf \cup {Cleared}]
            /\ \A q \in Party : q # p => call'[q] = call[q] /\ inbox'[q] = inbox[q]
            /\ inbox' \in [Party -> Seq(Message)] /\ inbox'[p] = << >>
            /\ UNCHANGED ignored
<1>1. CASE Active(p) /\ call[p].id # m.id
  BY <1>1 DEF ReceiveOffer
<1>2. CASE ~(Active(p) /\ call[p].id # m.id)
  <2> DEFINE r == [id |-> m.id, incoming |-> TRUE, ringing |-> TRUE, connected |-> FALSE]
  <2>1. m.id \in CallId
    BY MessageTyped
  <2>2. r \in CallOf /\ r.id = m.id /\ ~r.connected
    BY <2>1 DEF CallOf
  <2>3. /\ call' = [call EXCEPT ![p] = r] /\ inbox' = [inbox EXCEPT ![p] = << >>]
        /\ UNCHANGED ignored
    BY <1>2 DEF ReceiveOffer, Cleared
  <2>4. << >> \in Seq(Message)
    OBVIOUS
  <2>5. /\ inbox' \in [Party -> Seq(Message)] /\ inbox'[p] = << >>
        /\ \A q \in Party : q # p => inbox'[q] = inbox[q]
    BY <2>3, <2>4 DEF VoiceTyped
  <2> HIDE DEF r
  <2>6. /\ call'[p] = r /\ call' \in [Party -> CallOf \cup {Cleared}]
        /\ \A q \in Party : q # p => call'[q] = call[q]
    BY <2>2, <2>3, OneRecord
  <2> QED
    BY <1>2, <2>2, <2>3, <2>5, <2>6
<1> QED
  BY <1>1, <1>2

\* The inbox keeps old frames and the new one.
LEMMA QueueFrameEffect ==
  ASSUME VoiceTyped, NEW p \in Party, QueueFrame(p)
  PROVE  /\ inbox' \in [Party -> Seq(Message)] /\ decoding' \in [Party -> Seq(Message)]
         /\ \A q \in Party : q # p => inbox'[q] = inbox[q]
         /\ \/ inbox' = inbox
            \/ Active(p) /\ \A i \in DOMAIN inbox'[p] :
                 \/ inbox'[p][i].id = call[p].id
                 \/ \E j \in DOMAIN inbox[p] : inbox'[p][i] = inbox[p][j]
<1> DEFINE s == inbox[p]
           m == decoding[p][1]
           t == IF Len(s) >= InboxLimit THEN Tail(s) ELSE s
<1>1. s \in Seq(Message) /\ Len(s) \in Nat /\ DOMAIN s = 1..Len(s) /\ m \in Message
  BY DEF VoiceTyped, QueueFrame
<1>2. t \in Seq(Message) /\ \A i \in DOMAIN t : \E j \in DOMAIN s : t[i] = s[j]
  <2>1. CASE Len(s) >= InboxLimit
    <3>1. s # << >>
      BY <1>1, <2>1, VoiceAssumption
    <3>2. /\ Tail(s) \in Seq(Message) /\ DOMAIN Tail(s) = 1..(Len(s) - 1)
          /\ \A i \in 1..(Len(s) - 1) : Tail(s)[i] = s[i + 1] /\ i + 1 \in 1..Len(s)
      BY <1>1, <3>1
    <3> QED
      BY <1>1, <2>1, <3>2
  <2>2. CASE ~(Len(s) >= InboxLimit)
    BY <1>1, <2>2
  <2> QED
    BY <2>1, <2>2
<1>3. Kept(s, m) = Append(t, m)
  BY DEF Kept
<1> HIDE DEF s, t, m
<1>4. /\ Append(t, m) \in Seq(Message) /\ DOMAIN Append(t, m) = 1..(Len(t) + 1)
      /\ Len(t) \in Nat /\ DOMAIN t = 1..Len(t)
      /\ Append(t, m)[Len(t) + 1] = m
      /\ \A i \in 1..Len(t) : Append(t, m)[i] = t[i]
  BY <1>1, <1>2
<1>5. \A i \in DOMAIN Append(t, m) :
        Append(t, m)[i] = m \/ \E j \in DOMAIN s : Append(t, m)[i] = s[j]
  BY <1>2, <1>4
<1>6. decoding' \in [Party -> Seq(Message)]
  <2>1. << >> \in Seq(Message)
    OBVIOUS
  <2> QED
    BY <2>1 DEF QueueFrame, VoiceTyped
<1>7. CASE IsFor(p, m)
  <2>1. inbox' = [inbox EXCEPT ![p] = Append(t, m)]
    BY <1>3, <1>7 DEF QueueFrame, s, m
  <2>2. /\ inbox'[p] = Append(t, m) /\ inbox' \in [Party -> Seq(Message)]
        /\ \A q \in Party : q # p => inbox'[q] = inbox[q]
    BY <1>4, <2>1 DEF VoiceTyped
  <2> QED
    BY <1>5, <1>6, <1>7, <2>2 DEF IsFor, s
<1>8. CASE ~IsFor(p, m)
  BY <1>6, <1>8 DEF QueueFrame, VoiceTyped, m
<1> QED
  BY <1>7, <1>8

\* A signal of leaving leaves the call at most.
LEMMA LeaveCallEffect ==
  ASSUME VoiceTyped, NEW p \in Party, NEW kind \in Leave, LeaveCall(p, kind)
  PROVE  /\ Active(p) /\ Clear(p) /\ call[p].id \in CallId
         /\ MustSend(p, Signal(kind, call[p].id)) /\ Signal(kind, call[p].id) \in Message
         /\ UNCHANGED <<air, accepted, ignored, decoding>>
<1>1. Active(p) /\ call[p].id \in CallId
  BY IdTyped DEF LeaveCall
<1> QED
  BY <1>1, MessageTyped DEF LeaveCall

LEMMA VoiceStepTyped ==
  ASSUME VoiceTyped, [VoiceNext]_voiceVars
  PROVE  VoiceTyped'
<1>1. CASE UNCHANGED voiceVars
  BY <1>1 DEF voiceVars, VoiceTyped
<1> SUFFICES ASSUME NEW p \in Party,
                    \/ StartCall(p) \/ AcceptCall(p) \/ SendAudio(p) \/ PullAudio(p)
                    \/ QueueFrame(p)
                    \/ \E kind \in Leave : LeaveCall(p, kind)
                    \/ \E m \in duties[p] : Dispatch(p, m) \/ NoRoute(p, m)
                    \/ \E m \in air[p] : \/ ReceiveOffer(p, m) \/ ReceiveAnswer(p, m)
                                         \/ ReceiveLeave(p, m) \/ DecodeFrame(p, m)
                                         \/ LoseMessage(p, m)
             PROVE  VoiceTyped'
  BY <1>1 DEF VoiceNext, Leave
<1>2. ASSUME NEW x \in Party, StartCall(x) PROVE VoiceTyped'
  BY <1>2, StartCallEffect, OweMessage DEF StartCall, VoiceTyped
<1>3. ASSUME NEW x \in Party, AcceptCall(x) PROVE VoiceTyped'
  <2>1. Signal("answer", call[x].id) \in Message
    BY <1>3, IdTyped, MessageTyped DEF AcceptCall
  <2> QED
    BY <1>3, <2>1, Connects, OweMessage DEF AcceptCall, VoiceTyped
<1>4. ASSUME NEW x \in Party, SendAudio(x) PROVE VoiceTyped'
  <2>1. Signal("frame", call[x].id) \in Message
    BY <1>4, IdTyped, MessageTyped DEF SendAudio
  <2> QED
    BY <1>4, <2>1, OweMessage DEF SendAudio, VoiceTyped
<1>5. ASSUME NEW x \in Party, PullAudio(x) PROVE VoiceTyped'
  <2>1. << >> \in Seq(Message)
    OBVIOUS
  <2> QED
    BY <1>5, <2>1 DEF PullAudio, VoiceTyped
<1>6. ASSUME NEW x \in Party, QueueFrame(x) PROVE VoiceTyped'
  BY <1>6, QueueFrameEffect DEF QueueFrame, VoiceTyped
<1>7. ASSUME NEW x \in Party, NEW kind \in Leave, LeaveCall(x, kind) PROVE VoiceTyped'
  BY <1>7, LeaveCallEffect, OweMessage, OneRecord DEF VoiceTyped
<1>8. ASSUME NEW x \in Party, NEW m \in duties[x], Dispatch(x, m) PROVE VoiceTyped'
  BY <1>8, DispatchSaid DEF Dispatch, VoiceTyped
<1>9. ASSUME NEW x \in Party, NEW m \in duties[x], NoRoute(x, m) PROVE VoiceTyped'
  BY <1>9, DropDuty, OneRecord DEF NoRoute, VoiceTyped
<1>10. ASSUME NEW x \in Party, NEW m \in air[x], ReceiveOffer(x, m) PROVE VoiceTyped'
  BY <1>10, ReceiveOfferEffect, DropAir DEF ReceiveOffer, Arrives, Ignore, VoiceTyped
<1>11. ASSUME NEW x \in Party, NEW m \in air[x], ReceiveAnswer(x, m) PROVE VoiceTyped'
  <2>1. CASE IsFor(x, m)
    BY <1>11, <2>1, Connects, DropAir DEF ReceiveAnswer, Arrives, VoiceTyped
  <2>2. CASE ~IsFor(x, m)
    BY <1>11, <2>2, DropAir DEF ReceiveAnswer, Arrives, VoiceTyped
  <2> QED
    BY <2>1, <2>2
<1>12. ASSUME NEW x \in Party, NEW m \in air[x], ReceiveLeave(x, m) PROVE VoiceTyped'
  BY <1>12, OneRecord, DropAir DEF ReceiveLeave, Arrives, Ignore, VoiceTyped
<1>13. ASSUME NEW x \in Party, NEW m \in air[x], DecodeFrame(x, m) PROVE VoiceTyped'
  <2>1. m \in Message
    BY <1>13 DEF VoiceTyped
  <2>2. << >> \in Seq(Message) /\ <<m>> \in Seq(Message)
    BY <2>1
  <2>3. decoding' \in [Party -> Seq(Message)]
    BY <1>13, <2>2 DEF DecodeFrame, VoiceTyped
  <2> QED
    BY <1>13, <2>3, DropAir DEF DecodeFrame, Arrives, VoiceTyped
<1>14. ASSUME NEW x \in Party, NEW m \in air[x], LoseMessage(x, m) PROVE VoiceTyped'
  BY <1>14, DropAir DEF LoseMessage, VoiceTyped
<1> QED
  BY <1>2, <1>3, <1>4, <1>5, <1>6, <1>7, <1>8, <1>9, <1>10, <1>11, <1>12, <1>13, <1>14

-----------------------------------------------------------------------------
(* Voice calls: what is played, and who is connected                       *)

\* An inbox is emptied whenever its node changes the call.
LEMMA InboxStep ==
  ASSUME VoiceTyped, InboxEmptyIdle, FramesOfThisCall, [VoiceNext]_voiceVars
  PROVE  InboxEmptyIdle' /\ FramesOfThisCall'
<1>1. ASSUME \A q \in Party : \/ inbox'[q] = << >>
                              \/ inbox'[q] = inbox[q] /\ call'[q].id = call[q].id
      PROVE  InboxEmptyIdle' /\ FramesOfThisCall'
  <2>1. DOMAIN << >> = {}
    OBVIOUS
  <2> QED
    BY <1>1, <2>1 DEF InboxEmptyIdle, FramesOfThisCall, Active
<1>2. ASSUME NEW p \in Party, StartCall(p) PROVE InboxEmptyIdle' /\ FramesOfThisCall'
  <2>1. inbox' = inbox /\ inbox[p] = << >> /\ \A q \in Party : q # p => call'[q] = call[q]
    BY <1>2, StartCallEffect DEF StartCall, InboxEmptyIdle
  <2> QED
    BY <1>1, <2>1
<1>3. ASSUME NEW p \in Party, AcceptCall(p) PROVE InboxEmptyIdle' /\ FramesOfThisCall'
  BY <1>1, <1>3, Connects DEF AcceptCall
<1>4. ASSUME NEW p \in Party, PullAudio(p) PROVE InboxEmptyIdle' /\ FramesOfThisCall'
  BY <1>1, <1>4 DEF PullAudio, VoiceTyped
<1>5. ASSUME NEW p \in Party, QueueFrame(p) PROVE InboxEmptyIdle' /\ FramesOfThisCall'
  <2>1. call' = call
    BY <1>5 DEF QueueFrame
  <2>2. CASE inbox' = inbox
    BY <1>1, <2>1, <2>2
  <2>3. CASE inbox' # inbox
    <3>1. Active(p) /\ \A i \in DOMAIN inbox'[p] : inbox'[p][i].id = call[p].id
      BY <1>5, <2>3, QueueFrameEffect DEF FramesOfThisCall
    <3>2. \A q \in Party : q # p => inbox'[q] = inbox[q]
      BY <1>5, QueueFrameEffect
    <3> QED
      BY <2>1, <3>1, <3>2 DEF InboxEmptyIdle, FramesOfThisCall, Active
  <2> QED
    BY <2>2, <2>3
<1>6. ASSUME NEW p \in Party, NEW kind \in Leave, LeaveCall(p, kind)
      PROVE  InboxEmptyIdle' /\ FramesOfThisCall'
  BY <1>1, <1>6, LeaveCallEffect, OneRecord
<1>7. ASSUME NEW p \in Party, NEW m \in duties[p], NoRoute(p, m)
      PROVE  InboxEmptyIdle' /\ FramesOfThisCall'
  BY <1>1, <1>7, OneRecord DEF NoRoute
<1>8. ASSUME NEW p \in Party, NEW m \in air[p], ReceiveOffer(p, m)
      PROVE  InboxEmptyIdle' /\ FramesOfThisCall'
  BY <1>1, <1>8, ReceiveOfferEffect DEF Ignore
<1>9. ASSUME NEW p \in Party, NEW m \in air[p], ReceiveAnswer(p, m)
      PROVE  InboxEmptyIdle' /\ FramesOfThisCall'
  <2>1. CASE IsFor(p, m)
    BY <1>1, <1>9, <2>1, Connects DEF ReceiveAnswer
  <2>2. CASE ~IsFor(p, m)
    BY <1>1, <1>9, <2>2 DEF ReceiveAnswer
  <2> QED
    BY <2>1, <2>2
<1>10. ASSUME NEW p \in Party, NEW m \in air[p], ReceiveLeave(p, m)
       PROVE  InboxEmptyIdle' /\ FramesOfThisCall'
  BY <1>1, <1>10, OneRecord DEF ReceiveLeave, Ignore
<1>11. ASSUME UNCHANGED <<call, inbox>> PROVE InboxEmptyIdle' /\ FramesOfThisCall'
  BY <1>1, <1>11
<1>12. ASSUME NEW p \in Party, NEW m,
              SendAudio(p) \/ Dispatch(p, m) \/ DecodeFrame(p, m) \/ LoseMessage(p, m)
       PROVE  UNCHANGED <<call, inbox>>
  BY <1>12 DEF SendAudio, Dispatch, DecodeFrame, LoseMessage
<1>13. CASE UNCHANGED voiceVars
  BY <1>11, <1>13 DEF voiceVars
<1> QED
  BY <1>2, <1>3, <1>4, <1>5, <1>6, <1>7, <1>8, <1>9, <1>10, <1>11, <1>12, <1>13
     DEF VoiceNext, Leave

\* An answer under way is one that was given, and an id is not used again while a
\* call or a message has it.
LEMMA AnswersStep ==
  ASSUME VoiceTyped, AnswersInv, [VoiceNext]_voiceVars
  PROVE  AnswersInv'
<1> DEFINE Answering(q, i) == Signal("answer", i) \in Said(q)
<1> USE DEF AnswersInv
<1>1. ASSUME accepted \subseteq accepted',
             \A q \in Party : \A i \in CallId : Answering(q, i)' => Answering(q, i),
             \A q \in Party : call'[q].connected => \/ call'[q] = call[q]
                                                    \/ call'[q].id \in accepted'
      PROVE  AnswersInv'
  BY <1>1 DEF AnswersAccepted, ConnectedIsAccepted
<1>2. ASSUME NEW p \in Party, StartCall(p) PROVE AnswersInv'
  <2>1. PICK i \in CallId :
          /\ call'[p].id = i /\ ~call'[p].connected
          /\ \A q \in Party : q # p => call'[q] = call[q]
          /\ MustSend(p, Signal("offer", i)) /\ Signal("offer", i) \in Message
          /\ accepted' = accepted \ {i}
          /\ \A q \in Party : call[q].id # i
          /\ \A q \in Party : \A m \in Said(q) : m.id # i
    BY <1>2, StartCallEffect
  <2>2. \A q \in Party : \A j \in CallId :
          Answering(q, j)' => Answering(q, j) /\ j # i
    BY <1>2, <2>1, OweMessage, MessageTyped DEF StartCall
  <2>3. \A q \in Party : call'[q].connected => call'[q] = call[q] /\ call[q].id # i
    BY <2>1
  <2> QED
    BY <2>1, <2>2, <2>3 DEF AnswersAccepted, ConnectedIsAccepted
<1>3. ASSUME NEW p \in Party, AcceptCall(p) PROVE AnswersInv'
  <2>1. /\ call'[p].id = call[p].id /\ \A q \in Party : q # p => call'[q] = call[q]
        /\ accepted' = accepted \cup {call[p].id}
        /\ call[p].id \in CallId
    BY <1>3, Connects, IdTyped DEF AcceptCall
  <2>2. Signal("answer", call[p].id) \in Message
    BY <2>1, MessageTyped
  <2>3. \A q \in Party : \A j \in CallId :
          Answering(q, j)' => Answering(q, j) \/ j = call[p].id
    BY <1>3, <2>2, OweMessage, MessageTyped DEF AcceptCall
  <2> QED
    BY <2>1, <2>3 DEF AnswersAccepted, ConnectedIsAccepted
<1>4. ASSUME NEW p \in Party, NEW m, MustSend(p, m), m \in Message, m.kind # "answer",
             UNCHANGED <<air, accepted>>, call' = call \/ Clear(p)
      PROVE  AnswersInv'
  <2>1. \A q \in Party : \A j \in CallId : Answering(q, j)' => Answering(q, j)
    BY <1>4, OweMessage, MessageTyped
  <2>2. \A q \in Party : call'[q].connected => call'[q] = call[q]
    BY <1>4, OneRecord, IdTyped
  <2> QED
    BY <1>1, <1>4, <2>1, <2>2
<1>5. ASSUME NEW p \in Party, SendAudio(p) \/ \E kind \in Leave : LeaveCall(p, kind)
      PROVE  AnswersInv'
  <2>1. CASE SendAudio(p)
    <3>1. Signal("frame", call[p].id) \in Message
      BY <2>1, IdTyped, MessageTyped DEF SendAudio
    <3> QED
      BY <1>4, <2>1, <3>1, MessageTyped DEF SendAudio
  <2>2. ASSUME NEW kind \in Leave, LeaveCall(p, kind) PROVE AnswersInv'
    BY <1>4, <2>2, LeaveCallEffect, MessageTyped DEF Leave
  <2> QED
    BY <1>5, <2>1, <2>2
<1>6. ASSUME NEW p \in Party, UNCHANGED accepted,
             \A q \in Party : Said(q)' \subseteq Said(q),
             call' = call \/ Clear(p)
      PROVE  AnswersInv'
  <2>1. \A q \in Party : call'[q].connected => call'[q] = call[q]
    BY <1>6, OneRecord, IdTyped
  <2> QED
    BY <1>1, <1>6, <2>1
<1>7. ASSUME NEW p \in Party, NEW m \in duties[p], Dispatch(p, m) \/ NoRoute(p, m)
      PROVE  AnswersInv'
  BY <1>6, <1>7, DispatchSaid, DropDuty DEF Dispatch, NoRoute
<1>8. ASSUME NEW p \in Party, NEW m \in air[p],
             ReceiveLeave(p, m) \/ DecodeFrame(p, m) \/ LoseMessage(p, m)
      PROVE  AnswersInv'
  BY <1>6, <1>8, DropAir DEF ReceiveLeave, DecodeFrame, LoseMessage, Arrives, Ignore
<1>9. ASSUME NEW p \in Party, NEW m \in air[p], ReceiveOffer(p, m)
      PROVE  AnswersInv'
  <2>1. \A q \in Party : Said(q)' \subseteq Said(q)
    BY <1>9, DropAir DEF ReceiveOffer, Arrives
  <2>2. \A q \in Party : call'[q].connected => call'[q] = call[q]
    BY <1>9, ReceiveOfferEffect DEF Ignore
  <2> QED
    BY <1>1, <1>9, <2>1, <2>2 DEF ReceiveOffer, Arrives
<1>10. ASSUME NEW p \in Party, NEW m \in air[p], ReceiveAnswer(p, m)
       PROVE  AnswersInv'
  <2>1. \A q \in Party : Said(q)' \subseteq Said(q)
    BY <1>10, DropAir DEF ReceiveAnswer, Arrives
  <2>2. CASE ~IsFor(p, m)
    BY <1>6, <1>10, <2>1, <2>2 DEF ReceiveAnswer, Arrives
  <2>3. CASE IsFor(p, m)
    <3>1. call'[p].id = m.id /\ \A q \in Party : q # p => call'[q] = call[q]
      BY <1>10, <2>3, Connects DEF IsFor
    <3>2. m.id \in accepted /\ accepted' = accepted
      <4>1. m \in Said(Other(p)) /\ m = Signal("answer", m.id) /\ m.id \in CallId
        BY <1>10, DropAir, MessageTyped DEF ReceiveAnswer, Arrives
      <4> QED
        BY <1>10, <4>1, OtherParty DEF AnswersAccepted, ReceiveAnswer, Arrives
    <3> QED
      BY <1>1, <2>1, <3>1, <3>2
  <2> QED
    BY <2>2, <2>3
<1>11. ASSUME UNCHANGED <<call, duties, air, accepted>> PROVE AnswersInv'
  BY <1>1, <1>11 DEF Said, Other
<1>12. ASSUME NEW p \in Party, PullAudio(p) \/ QueueFrame(p) PROVE AnswersInv'
  BY <1>11, <1>12 DEF PullAudio, QueueFrame
<1>13. CASE UNCHANGED voiceVars
  BY <1>11, <1>13 DEF voiceVars
<1> QED
  BY <1>2, <1>3, <1>5, <1>7, <1>8, <1>9, <1>10, <1>12, <1>13 DEF VoiceNext, Leave

-----------------------------------------------------------------------------
(* Voice calls: both are in a call, or whoever is not has told the other   *)

\* What p has said is as before, or as before but for what it said of i.
SaysTheSame(p) ==
  \A j \in CallId : (Offered(p, j)' <=> Offered(p, j)) /\ (Left(p, j)' <=> Left(p, j))
SaysLessOf(p, i) ==
  \A j \in CallId : /\ Offered(p, j)' => Offered(p, j)
                    /\ Left(p, j)' => Left(p, j)
                    /\ j # i => (Offered(p, j)' <=> Offered(p, j)) /\ (Left(p, j)' <=> Left(p, j))

\* A call begins: nobody has heard of its id.
LEMMA BeginStep ==
  ASSUME VoiceTyped, TogetherOrTold, NEW p \in Party, NEW i \in CallId,
         ~Active(p), call'[p].id = i, call[Other(p)].id # i,
         call'[Other(p)].id = call[Other(p)].id,
         ignored' = ignored \ {i},
         \A q \in Party : \A j \in CallId :
           /\ Offered(q, j)' <=> Offered(q, j) \/ (q = p /\ j = i)
           /\ Left(q, j)' <=> Left(q, j)
           /\ Offered(q, j) \/ Left(q, j) => j # i
  PROVE  TogetherOrTold'
<1>1. /\ Other(p) \in Party /\ Other(p) # p /\ Other(Other(p)) = p
      /\ \A q \in Party : q = p \/ q = Other(p)
  BY OtherParty
<1>2. call[p].id = None /\ None \notin CallId
      /\ \A q \in Party : Active(q) <=> call[q].id \in CallId
  BY IdTyped DEF Active
<1>3. \A q \in Party : Active(q)' <=> call'[q].id # None
  BY DEF Active
<1>4. OffersNew' /\ LeftIsOut'
  BY <1>1, <1>2 DEF TogetherOrTold, OffersNew, LeftIsOut
<1>5. OfferStands'
  BY <1>1, <1>2 DEF TogetherOrTold, OfferStands
<1>6. NotLeftAlone'
  <2> DEFINE o == Other(p)
  <2> PICK k : k = call[o].id
    OBVIOUS
  <2>1. Offered(p, i)'
    OBVIOUS
  <2>2. ASSUME k # None, k \notin ignored'
        PROVE  Offered(o, k)' \/ Left(p, k)'
    <3>1. k \in CallId /\ k \notin ignored /\ Active(o)
      BY <1>1, <1>2, <2>2 DEF Active
    <3>2. Offered(o, k) \/ Left(p, k)
      BY <1>1, <1>2, <2>2, <3>1 DEF TogetherOrTold, NotLeftAlone
    <3> QED
      BY <1>1, <3>1, <3>2
  <2> QED
    BY <1>1, <1>3, <2>1, <2>2 DEF NotLeftAlone
<1> QED
  BY <1>4, <1>5, <1>6 DEF TogetherOrTold

\* p leaves the call it is in and owes the other word of it.
LEMMA LeaveStep ==
  ASSUME VoiceTyped, TogetherOrTold, NEW p \in Party, UNCHANGED ignored,
         Active(p), ~Active(p)', call'[Other(p)].id = call[Other(p)].id,
         \A q \in Party : \A j \in CallId :
           /\ Offered(q, j)' <=> Offered(q, j)
           /\ Left(q, j)' <=> Left(q, j) \/ (q = p /\ j = call[p].id)
  PROVE  TogetherOrTold'
<1>1. /\ Other(p) \in Party /\ Other(p) # p /\ Other(Other(p)) = p
      /\ \A q \in Party : q = p \/ q = Other(p)
  BY OtherParty
<1>2. None \notin CallId /\ \A q \in Party : Active(q) <=> call[q].id \in CallId
  BY IdTyped
<1>3. call'[p].id = None /\ \A q \in Party : Active(q)' <=> call'[q].id # None
  BY DEF Active
<1>4. OffersNew' /\ LeftIsOut'
  BY <1>1, <1>2, <1>3 DEF TogetherOrTold, OffersNew, LeftIsOut
<1>5. OfferStands'
  BY <1>1, <1>2, <1>3 DEF TogetherOrTold, OfferStands
<1>6. NotLeftAlone'
  <2> DEFINE o == Other(p)
  <2> PICK k : k = call[o].id
    OBVIOUS
  <2>1. ASSUME k # None, k \notin ignored
        PROVE  Offered(o, k)' \/ Left(p, k)'
    <3>1. k \in CallId /\ Active(o)
      BY <1>1, <1>2, <2>1 DEF Active
    <3>2. k = call[p].id \/ Offered(o, k) \/ Left(p, k)
      BY <1>1, <2>1, <3>1 DEF TogetherOrTold, NotLeftAlone
    <3> QED
      BY <1>1, <3>1, <3>2
  <2> QED
    BY <1>1, <1>3, <2>1 DEF NotLeftAlone
<1> QED
  BY <1>4, <1>5, <1>6 DEF TogetherOrTold

\* A signal of the call i is gone for good, and perhaps the call of p with it; if
\* so, p is in no call at all.
LEMMA LossStep ==
  ASSUME VoiceTyped, TogetherOrTold, NEW p \in Party, NEW i \in CallId,
         ignored \cup {i} \subseteq ignored',
         \/ call' = call
         \/ /\ ~Active(p)' /\ call[p].id \in ignored'
            /\ call'[Other(p)].id = call[Other(p)].id,
         \A q \in Party : SaysLessOf(q, i)
  PROVE  TogetherOrTold'
<1>1. /\ Other(p) \in Party /\ Other(p) # p /\ Other(Other(p)) = p
      /\ \A q \in Party : q = p \/ q = Other(p)
  BY OtherParty
<1>2. None \notin CallId /\ \A q \in Party : Active(q) <=> call[q].id \in CallId
  BY IdTyped
<1>3. \A q \in Party : Active(q)' <=> call'[q].id # None
  BY DEF Active
<1>4. \A q \in Party : \/ call'[q].id = call[q].id
                       \/ call'[q].id = None /\ call[q].id \in ignored'
  BY <1>1, <1>3
<1>5. OffersNew' /\ LeftIsOut'
  BY <1>1, <1>2, <1>3, <1>4 DEF TogetherOrTold, OffersNew, LeftIsOut, SaysLessOf
<1>6. OfferStands'
  BY <1>1, <1>2, <1>3, <1>4 DEF TogetherOrTold, OfferStands, SaysLessOf
<1>7. NotLeftAlone'
  <2> SUFFICES ASSUME NEW q \in Party, Active(q)', call'[q].id \notin ignored'
               PROVE  \/ call'[Other(q)].id = call'[q].id
                      \/ Offered(q, call[q].id)' \/ Left(Other(q), call[q].id)'
    BY DEF NotLeftAlone
  <2> DEFINE o == Other(q)
  <2> PICK k : k = call[q].id
    OBVIOUS
  <2>1. call'[q].id = k /\ k \in CallId /\ k \notin ignored /\ k # i /\ Active(q)
    BY <1>2, <1>3, <1>4 DEF Active
  <2>2. call[o].id = k \/ Offered(q, k) \/ Left(o, k)
    BY <2>1 DEF TogetherOrTold, NotLeftAlone
  <2>3. o \in Party
    BY OtherParty
  <2>4. call[o].id = k => call'[o].id = k
    BY <1>4, <2>1, <2>3
  <2> QED
    BY <2>1, <2>2, <2>3, <2>4 DEF SaysLessOf
<1> QED
  BY <1>5, <1>6, <1>7 DEF TogetherOrTold

\* p, in no call, hears the offer of the call i, and nothing says i twice.
LEMMA JoinStep ==
  ASSUME VoiceTyped, TogetherOrTold, NEW p \in Party, NEW i \in CallId, UNCHANGED ignored,
         Offered(Other(p), i), ~Offered(Other(p), i)',
         ~Active(p), call'[p].id = i, call'[Other(p)].id = call[Other(p)].id,
         SaysTheSame(p), SaysLessOf(Other(p), i),
         Left(Other(p), i)' <=> Left(Other(p), i)
  PROVE  TogetherOrTold'
<1>1. /\ Other(p) \in Party /\ Other(p) # p /\ Other(Other(p)) = p
      /\ \A q \in Party : q = p \/ q = Other(p)
  BY OtherParty
<1>2. call[p].id = None /\ None \notin CallId
      /\ \A q \in Party : Active(q) <=> call[q].id \in CallId
  BY IdTyped DEF Active
<1>3. \A q \in Party : Active(q)' <=> call'[q].id # None
  BY DEF Active
<1>4. OffersNew' /\ LeftIsOut'
  BY <1>1, <1>2 DEF TogetherOrTold, OffersNew, LeftIsOut, SaysTheSame, SaysLessOf
<1>5. OfferStands'
  BY <1>1, <1>2 DEF TogetherOrTold, OfferStands, SaysTheSame, SaysLessOf
<1>6. NotLeftAlone'
  <2> DEFINE o == Other(p)
  <2> PICK k : k = call[o].id
    OBVIOUS
  <2>1. i \notin ignored => k = i \/ Left(o, i)'
    BY <1>1 DEF TogetherOrTold, OfferStands
  <2>2. ASSUME k # None, k \notin ignored, k # i
        PROVE  Offered(o, k)' \/ Left(p, k)'
    <3>1. k \in CallId /\ Active(o)
      BY <1>1, <1>2, <2>2 DEF Active
    <3>2. Offered(o, k) \/ Left(p, k)
      BY <1>1, <1>2, <2>2, <3>1 DEF TogetherOrTold, NotLeftAlone
    <3> QED
      BY <1>1, <2>2, <3>1, <3>2 DEF SaysTheSame, SaysLessOf
  <2> QED
    BY <1>1, <1>3, <2>1, <2>2 DEF NotLeftAlone
<1> QED
  BY <1>4, <1>5, <1>6 DEF TogetherOrTold

\* p hears that the other left the call i, which both were in.
LEMMA TakenBackStep ==
  ASSUME VoiceTyped, TogetherOrTold, NEW p \in Party, NEW i \in CallId, UNCHANGED ignored,
         Left(Other(p), i), call[p].id = i, ~Active(p)',
         call'[Other(p)].id = call[Other(p)].id,
         SaysTheSame(p), SaysLessOf(Other(p), i)
  PROVE  TogetherOrTold'
<1>1. /\ Other(p) \in Party /\ Other(p) # p /\ Other(Other(p)) = p
      /\ \A q \in Party : q = p \/ q = Other(p)
  BY OtherParty
<1>2. None \notin CallId /\ \A q \in Party : Active(q) <=> call[q].id \in CallId
  BY IdTyped
<1>3. call'[p].id = None /\ \A q \in Party : Active(q)' <=> call'[q].id # None
  BY DEF Active
<1>4. /\ ~Offered(p, i) /\ ~Offered(Other(p), i)
      /\ call[Other(p)].id # i
  BY <1>1 DEF TogetherOrTold, OffersNew, LeftIsOut
<1>5. OffersNew' /\ LeftIsOut'
  BY <1>1, <1>2, <1>3 DEF TogetherOrTold, OffersNew, LeftIsOut, SaysTheSame, SaysLessOf
<1>6. OfferStands'
  BY <1>1, <1>2, <1>3, <1>4 DEF TogetherOrTold, OfferStands, SaysTheSame, SaysLessOf
<1>7. NotLeftAlone'
  <2> DEFINE o == Other(p)
  <2> PICK k : k = call[o].id
    OBVIOUS
  <2>1. ASSUME k # None, k \notin ignored
        PROVE  Offered(o, k)' \/ Left(p, k)'
    <3>1. k \in CallId /\ Active(o) /\ k # i
      BY <1>1, <1>2, <1>4, <2>1 DEF Active
    <3>2. Offered(o, k) \/ Left(p, k)
      BY <1>1, <2>1, <3>1 DEF TogetherOrTold, NotLeftAlone
    <3> QED
      BY <1>1, <3>1, <3>2 DEF SaysTheSame, SaysLessOf
  <2> QED
    BY <1>1, <1>3, <2>1 DEF NotLeftAlone
<1> QED
  BY <1>5, <1>6, <1>7 DEF TogetherOrTold

\* No call begins or ends, and no offer or word of leaving comes or goes.
LEMMA SameCallsStep ==
  ASSUME VoiceTyped, TogetherOrTold, UNCHANGED ignored,
         \A q \in Party : call'[q].id = call[q].id /\ SaysTheSame(q)
  PROVE  TogetherOrTold'
<1>1. \A q \in Party : /\ Other(q) \in Party /\ (Active(q)' <=> Active(q))
                      /\ (Active(q) => call[q].id \in CallId)
  BY OtherParty, IdTyped DEF Active
<1>2. OffersNew' /\ LeftIsOut'
  BY <1>1 DEF TogetherOrTold, OffersNew, LeftIsOut, SaysTheSame
<1>3. OfferStands'
  BY <1>1 DEF TogetherOrTold, OfferStands, SaysTheSame
<1>4. NotLeftAlone'
  BY <1>1 DEF TogetherOrTold, NotLeftAlone, SaysTheSame
<1> QED
  BY <1>2, <1>3, <1>4 DEF TogetherOrTold

\* How what a node says determines what it offers and leaves.
LEMMA SaysFacts ==
  ASSUME NEW q \in Party, VoiceTyped
  PROVE  /\ Said(q)' = Said(q) => SaysTheSame(q)
         /\ \A m : Said(q)' \subseteq Said(q) /\ Said(q) \ {m} \subseteq Said(q)' =>
              /\ SaysLessOf(q, m.id)
              /\ m.kind \notin {"offer"} \cup Leave => SaysTheSame(q)
              /\ m.kind \notin Leave => Left(q, m.id)' <=> Left(q, m.id)
         /\ \A m : Said(q)' = Said(q) \cup {m} =>
              /\ m.kind \notin {"offer"} \cup Leave => SaysTheSame(q)
              /\ \A i : m = Signal("offer", i) =>
                   \A j \in CallId : /\ Offered(q, j)' <=> Offered(q, j) \/ j = i
                                     /\ Left(q, j)' <=> Left(q, j)
              /\ \A i : \A kind \in Leave : m = Signal(kind, i) =>
                   \A j \in CallId : /\ Offered(q, j)' <=> Offered(q, j)
                                     /\ Left(q, j)' <=> Left(q, j) \/ j = i
<1> USE MessageTyped
<1>1. Said(q)' = Said(q) => SaysTheSame(q)
  BY DEF SaysTheSame, Offered, Left
<1>2. ASSUME NEW m, Said(q)' \subseteq Said(q), Said(q) \ {m} \subseteq Said(q)'
      PROVE  /\ SaysLessOf(q, m.id)
             /\ m.kind \notin {"offer"} \cup Leave => SaysTheSame(q)
             /\ m.kind \notin Leave => Left(q, m.id)' <=> Left(q, m.id)
  BY <1>2 DEF SaysTheSame, SaysLessOf, Offered, Left, Leave
<1>3. ASSUME NEW m, Said(q)' = Said(q) \cup {m}
      PROVE  /\ m.kind \notin {"offer"} \cup Leave => SaysTheSame(q)
             /\ \A i : m = Signal("offer", i) =>
                  \A j \in CallId : /\ Offered(q, j)' <=> Offered(q, j) \/ j = i
                                    /\ Left(q, j)' <=> Left(q, j)
             /\ \A i : \A kind \in Leave : m = Signal(kind, i) =>
                  \A j \in CallId : /\ Offered(q, j)' <=> Offered(q, j)
                                    /\ Left(q, j)' <=> Left(q, j) \/ j = i
  <2>1. m.kind \notin {"offer"} \cup Leave => SaysTheSame(q)
    BY <1>3 DEF SaysTheSame, Offered, Left, Leave
  <2>2. ASSUME NEW i, m = Signal("offer", i), NEW j \in CallId
        PROVE  (Offered(q, j)' <=> Offered(q, j) \/ j = i) /\ (Left(q, j)' <=> Left(q, j))
    BY <1>3, <2>2 DEF Offered, Left, Leave
  <2>3. ASSUME NEW i, NEW kind \in Leave, m = Signal(kind, i), NEW j \in CallId
        PROVE  (Offered(q, j)' <=> Offered(q, j)) /\ (Left(q, j)' <=> Left(q, j) \/ j = i)
    BY <1>3, <2>3 DEF Offered, Left, Leave
  <2> QED
    BY <2>1, <2>2, <2>3
<1> QED
  BY <1>1, <1>2, <1>3

\* Only start_voice_call sends an offer, and with an id that nothing refers to.
LEMMA OfferOnceStep ==
  ASSUME VoiceTyped, OfferOnce, [VoiceNext]_voiceVars
  PROVE  OfferOnce'
<1> DEFINE Off(i) == Signal("offer", i)
<1>1. ASSUME \A q \in Party : \A i \in CallId :
               /\ Off(i) \in duties'[q] => Off(i) \in duties[q]
               /\ Off(i) \in air'[q] => Off(i) \in air[q]
      PROVE  OfferOnce'
  BY <1>1, OtherParty DEF OfferOnce, Other
<1>2. ASSUME NEW p \in Party, NEW m \in Message, m.kind # "offer", MustSend(p, m), UNCHANGED air
      PROVE  OfferOnce'
  <2>1. \A q \in Party : \A i \in CallId : Off(i) \in duties'[q] => Off(i) \in duties[q]
    BY <1>2, OweMessage, MessageTyped
  <2> QED
    BY <1>1, <1>2, <2>1
<1>3. ASSUME NEW p \in Party, StartCall(p) PROVE OfferOnce'
  <2>1. PICK i \in CallId : /\ MustSend(p, Off(i)) /\ Off(i) \in Message
                            /\ \A q \in Party : Off(i) \notin air[q]
    BY <1>3, StartCallEffect, MessageTyped
  <2>2. UNCHANGED air
    BY <1>3 DEF StartCall
  <2>3. \A q \in Party : \A j \in CallId :
          Off(j) \in duties'[q] => Off(j) \in duties[q] \/ j = i
    BY <2>1, <2>2, OweMessage, MessageTyped
  <2> QED
    BY <2>1, <2>2, <2>3, OtherParty DEF OfferOnce, Other
<1>4. ASSUME NEW p \in Party, AcceptCall(p) \/ SendAudio(p) PROVE OfferOnce'
  BY <1>2, <1>4, IdTyped, MessageTyped DEF AcceptCall, SendAudio
<1>5. ASSUME NEW p \in Party, NEW kind \in Leave, LeaveCall(p, kind) PROVE OfferOnce'
  BY <1>2, <1>5, LeaveCallEffect, MessageTyped DEF Leave
<1>6. ASSUME NEW p \in Party, NEW m \in duties[p], Dispatch(p, m) PROVE OfferOnce'
  <2>1. /\ duties'[p] = duties[p] \ {m} /\ air'[Other(p)] = air[Other(p)] \cup {m}
        /\ \A q \in Party : q # p => duties'[q] = duties[q] /\ air'[Other(q)] = air[Other(q)]
    BY <1>6, DispatchSaid
  <2> QED
    BY <2>1 DEF OfferOnce, Other
<1>7. ASSUME NEW p \in Party, NEW m \in duties[p], NoRoute(p, m) PROVE OfferOnce'
  BY <1>1, <1>7, DropDuty DEF NoRoute
<1>8. ASSUME NEW p \in Party, NEW m \in air[p],
             \/ ReceiveOffer(p, m) \/ ReceiveAnswer(p, m) \/ ReceiveLeave(p, m)
             \/ DecodeFrame(p, m) \/ LoseMessage(p, m)
      PROVE  OfferOnce'
  <2>1. air' = [air EXCEPT ![p] = @ \ {m}] /\ UNCHANGED duties
    BY <1>8 DEF ReceiveOffer, ReceiveAnswer, ReceiveLeave, DecodeFrame, LoseMessage, Arrives
  <2> QED
    BY <1>1, <2>1, DropAir
<1>9. ASSUME UNCHANGED <<duties, air>> PROVE OfferOnce'
  BY <1>9 DEF OfferOnce, Other
<1>10. ASSUME NEW p \in Party, PullAudio(p) \/ QueueFrame(p) PROVE OfferOnce'
  BY <1>9, <1>10 DEF PullAudio, QueueFrame
<1>11. CASE UNCHANGED voiceVars
  BY <1>9, <1>11 DEF voiceVars
<1> QED
  BY <1>3, <1>4, <1>5, <1>6, <1>7, <1>8, <1>10, <1>11 DEF VoiceNext, Leave

LEMMA TogetherStep ==
  ASSUME VoiceTyped, OfferOnce, TogetherOrTold, [VoiceNext]_voiceVars
  PROVE  TogetherOrTold'
<1> USE OtherParty
<1>1. ASSUME UNCHANGED <<duties, air, call, ignored>> PROVE TogetherOrTold'
  <2>1. \A q \in Party : Said(q)' = Said(q)
    BY <1>1 DEF Said, Other
  <2> QED
    BY <1>1, <2>1, SaysFacts, SameCallsStep
<1>2. ASSUME NEW p \in Party, StartCall(p) PROVE TogetherOrTold'
  <2>1. PICK i \in CallId :
          /\ ~Active(p) /\ call'[p].id = i
          /\ \A q \in Party : q # p => call'[q] = call[q]
          /\ MustSend(p, Signal("offer", i)) /\ Signal("offer", i) \in Message
          /\ ignored' = ignored \ {i}
          /\ \A q \in Party : call[q].id # i
          /\ \A q \in Party : \A m \in Said(q) : m.id # i
    BY <1>2, StartCallEffect
  <2>2. /\ Said(p)' = Said(p) \cup {Signal("offer", i)}
        /\ \A q \in Party : q # p => Said(q)' = Said(q)
    BY <1>2, <2>1, OweMessage DEF StartCall
  <2>3. /\ \A j \in CallId : (Offered(p, j)' <=> Offered(p, j) \/ j = i)
                             /\ (Left(p, j)' <=> Left(p, j))
        /\ \A q \in Party : q # p => SaysTheSame(q)
    BY <2>2, SaysFacts
  <2>4. \A q \in Party : \A j \in CallId : Offered(q, j) \/ Left(q, j) => j # i
    BY <2>1, MessageTyped DEF Offered, Left
  <2>5. \A q \in Party : \A j \in CallId :
           /\ Offered(q, j)' <=> Offered(q, j) \/ (q = p /\ j = i)
           /\ Left(q, j)' <=> Left(q, j)
    BY <2>3 DEF SaysTheSame
  <2> QED
    BY <2>1, <2>4, <2>5, BeginStep
<1>3. ASSUME NEW p \in Party, NEW kind \in Leave, LeaveCall(p, kind) PROVE TogetherOrTold'
  <2>1. /\ Active(p) /\ call'[p] = Cleared /\ call[p].id \in CallId
        /\ \A q \in Party : q # p => call'[q] = call[q]
        /\ MustSend(p, Signal(kind, call[p].id)) /\ Signal(kind, call[p].id) \in Message
        /\ UNCHANGED <<air, ignored>>
    BY <1>3, LeaveCallEffect, OneRecord
  <2>2. /\ Said(p)' = Said(p) \cup {Signal(kind, call[p].id)}
        /\ \A q \in Party : q # p => Said(q)' = Said(q)
    BY <2>1, OweMessage
  <2>3. /\ \A j \in CallId : (Offered(p, j)' <=> Offered(p, j))
                             /\ (Left(p, j)' <=> Left(p, j) \/ j = call[p].id)
        /\ \A q \in Party : q # p => SaysTheSame(q)
    BY <2>2, SaysFacts
  <2>4. \A q \in Party : \A j \in CallId :
           /\ Offered(q, j)' <=> Offered(q, j)
           /\ Left(q, j)' <=> Left(q, j) \/ (q = p /\ j = call[p].id)
    BY <2>3 DEF SaysTheSame
  <2>5. ~Active(p)'
    BY <2>1, IdTyped DEF Active
  <2> QED
    BY <2>1, <2>4, <2>5, LeaveStep
<1>4. ASSUME NEW p \in Party, NEW m \in Message, m.kind \notin {"offer"} \cup Leave,
             MustSend(p, m), UNCHANGED <<air, ignored>>,
             \A q \in Party : call'[q].id = call[q].id
      PROVE  TogetherOrTold'
  <2>1. Said(p)' = Said(p) \cup {m} /\ \A q \in Party : q # p => Said(q)' = Said(q)
    BY <1>4, OweMessage
  <2>2. \A q \in Party : SaysTheSame(q)
    BY <1>4, <2>1, SaysFacts
  <2> QED
    BY <1>4, <2>2, SameCallsStep
<1>5. ASSUME NEW p \in Party, AcceptCall(p) PROVE TogetherOrTold'
  <2>1. Signal("answer", call[p].id) \in Message
    BY <1>5, IdTyped, MessageTyped DEF AcceptCall
  <2> QED
    <3>1. \A q \in Party : call'[q].id = call[q].id
      BY <1>5, Connects
    <3>2. MustSend(p, Signal("answer", call[p].id)) /\ UNCHANGED <<air, ignored>>
      BY <1>5 DEF AcceptCall
    <3>3. Signal("answer", call[p].id).kind \notin {"offer"} \cup Leave
      BY MessageTyped DEF Leave
    <3> QED
      BY <1>4, <2>1, <3>1, <3>2, <3>3
<1>6. ASSUME NEW p \in Party, SendAudio(p) PROVE TogetherOrTold'
  <2>1. Signal("frame", call[p].id) \in Message
    BY <1>6, IdTyped, MessageTyped DEF SendAudio
  <2> QED
    BY <1>4, <1>6, <2>1, MessageTyped DEF SendAudio, Leave
<1>7. ASSUME NEW p \in Party, NEW m \in duties[p], Dispatch(p, m) PROVE TogetherOrTold'
  <2>1. \A q \in Party : SaysTheSame(q)
    BY <1>7, DispatchSaid, SaysFacts
  <2> QED
    BY <1>7, <2>1, SameCallsStep DEF Dispatch
<1>8. ASSUME NEW p \in Party, NEW m \in duties[p], NoRoute(p, m) PROVE TogetherOrTold'
  <2>1. \A q \in Party : SaysLessOf(q, m.id)
    BY <1>8, DropDuty, SaysFacts DEF NoRoute
  <2>2. m.id \in CallId
    BY MessageTyped
  <2>3. \/ call' = call
        \/ /\ ~Active(p)' /\ call[p].id \in ignored'
           /\ call'[Other(p)].id = call[Other(p)].id
    BY <1>8, OneRecord, IdTyped DEF NoRoute, Active
  <2>4. ignored \cup {m.id} \subseteq ignored'
    BY <1>8 DEF NoRoute
  <2> QED
    BY <2>1, <2>2, <2>3, <2>4, LossStep
<1>9. ASSUME NEW p \in Party, NEW m \in air[p], air' = [air EXCEPT ![p] = @ \ {m}],
             UNCHANGED duties
      PROVE  /\ m \in Said(Other(p)) /\ SaysTheSame(p)
             /\ \A q \in Party : SaysLessOf(q, m.id)
             /\ m.kind \notin {"offer"} \cup Leave => SaysTheSame(Other(p))
             /\ m.kind \notin Leave => Left(Other(p), m.id)' <=> Left(Other(p), m.id)
  BY <1>9, DropAir, SaysFacts
<1>10. ASSUME NEW p \in Party, NEW m \in air[p], air' = [air EXCEPT ![p] = @ \ {m}],
              UNCHANGED <<duties, call>>, ignored' = ignored \cup {m.id}
       PROVE  TogetherOrTold'
  <2>1. m.id \in CallId
    BY MessageTyped
  <2> QED
    BY <1>9, <1>10, <2>1, LossStep
<1>11. ASSUME NEW p \in Party, NEW m \in air[p], ReceiveOffer(p, m) PROVE TogetherOrTold'
  <2>1. /\ m.kind = "offer" /\ air' = [air EXCEPT ![p] = @ \ {m}] /\ UNCHANGED duties
        /\ m = Signal("offer", m.id) /\ m.id \in CallId
    BY <1>11, MessageTyped DEF ReceiveOffer, Arrives
  <2>2. CASE Ignore(m)
    BY <1>10, <2>1, <2>2 DEF Ignore
  <2>3. CASE ~Ignore(m)
    <3>1. Offered(Other(p), m.id) /\ call[p].id # m.id
      <4>1. Offered(Other(p), m.id)
        BY <1>9, <2>1 DEF Offered
      <4> QED
        BY <2>1, <4>1 DEF TogetherOrTold, OffersNew
    <3>2. /\ ~Active(p) /\ call'[p].id = m.id /\ UNCHANGED ignored
          /\ call'[Other(p)].id = call[Other(p)].id
      BY <1>11, <2>3, <3>1, ReceiveOfferEffect
    <3>3. ~Offered(Other(p), m.id)'
      <4>1. m \notin duties[Other(p)]
        BY <2>1 DEF OfferOnce
      <4>2. m \notin air'[p]
        BY <2>1, DropAir
      <4>3. Said(Other(p))' = duties[Other(p)] \cup air'[p]
        BY <2>1 DEF Said, Other
      <4> QED
        BY <2>1, <4>1, <4>2, <4>3 DEF Offered
    <3>4. SaysTheSame(p) /\ SaysLessOf(Other(p), m.id)
          /\ (Left(Other(p), m.id)' <=> Left(Other(p), m.id))
      BY <1>9, <2>1 DEF Leave
    <3> QED
      BY <2>1, <3>1, <3>2, <3>3, <3>4, JoinStep
  <2> QED
    BY <2>2, <2>3
<1>12. ASSUME NEW p \in Party, NEW m \in air[p], ReceiveAnswer(p, m) \/ DecodeFrame(p, m)
       PROVE  TogetherOrTold'
  <2>1. /\ m.kind \notin {"offer"} \cup Leave /\ air' = [air EXCEPT ![p] = @ \ {m}]
        /\ UNCHANGED <<duties, ignored>>
    BY <1>12 DEF ReceiveAnswer, DecodeFrame, Arrives, Leave
  <2>2. \A q \in Party : SaysTheSame(q)
    BY <1>9, <2>1
  <2>3. \A q \in Party : call'[q].id = call[q].id
    <3>1. CASE ReceiveAnswer(p, m) /\ IsFor(p, m)
      BY <3>1, Connects
    <3>2. CASE ~(ReceiveAnswer(p, m) /\ IsFor(p, m))
      BY <1>12, <3>2 DEF ReceiveAnswer, DecodeFrame
    <3> QED
      BY <3>1, <3>2
  <2> QED
    BY <2>1, <2>2, <2>3, SameCallsStep
<1>13. ASSUME NEW p \in Party, NEW m \in air[p], ReceiveLeave(p, m) PROVE TogetherOrTold'
  <2>1. /\ m.kind \in Leave /\ air' = [air EXCEPT ![p] = @ \ {m}] /\ UNCHANGED duties
        /\ m = Signal(m.kind, m.id) /\ m.id \in CallId
    BY <1>13, MessageTyped DEF ReceiveLeave, Arrives, Leave
  <2>2. CASE ~IsFor(p, m)
    BY <1>10, <1>13, <2>1, <2>2 DEF ReceiveLeave, Ignore
  <2>3. CASE IsFor(p, m)
    <3>1. Left(Other(p), m.id)
      <4>1. Signal(m.kind, m.id) \in Said(Other(p))
        BY <1>9, <2>1
      <4> QED
        BY <2>1, <4>1, Zenon DEF Left
    <3>2. /\ call[p].id = m.id /\ call'[p] = Cleared /\ UNCHANGED ignored
          /\ call'[Other(p)].id = call[Other(p)].id
      BY <1>13, <2>3, OneRecord DEF ReceiveLeave, IsFor
    <3>3. ~Active(p)'
      BY <3>2, IdTyped DEF Active
    <3>4. SaysTheSame(p) /\ SaysLessOf(Other(p), m.id)
      BY <1>9, <2>1
    <3> QED
      BY <2>1, <3>1, <3>2, <3>3, <3>4, TakenBackStep
  <2> QED
    BY <2>2, <2>3
<1>14. ASSUME NEW p \in Party, NEW m \in air[p], LoseMessage(p, m) PROVE TogetherOrTold'
  BY <1>10, <1>14 DEF LoseMessage
<1>15. ASSUME NEW p \in Party, PullAudio(p) \/ QueueFrame(p) PROVE TogetherOrTold'
  BY <1>1, <1>15 DEF PullAudio, QueueFrame
<1>16. CASE UNCHANGED voiceVars
  BY <1>1, <1>16 DEF voiceVars
<1> QED
  BY <1>2, <1>3, <1>5, <1>6, <1>7, <1>8, <1>11, <1>12, <1>13, <1>14, <1>15, <1>16
     DEF VoiceNext, Leave

-----------------------------------------------------------------------------
(* Voice calls: the theorems                                               *)

LEMMA VoiceInitInv ==
  ASSUME VoiceInit PROVE VoiceInv
<1>1. << >> \in Seq(Message) /\ DOMAIN << >> = {}
  OBVIOUS
<1>2. VoiceTyped
  BY <1>1 DEF VoiceInit, VoiceTyped
<1>3. \A p \in Party : Other(p) \in Party
  BY OtherParty
<1>4. \A p \in Party : Said(p) = {} /\ call[p].id = None /\ ~Active(p) /\ inbox[p] = << >>
                       /\ ~call[p].connected /\ duties[p] = {}
  BY <1>3 DEF VoiceInit, Said, Active, Cleared
<1>5. \A p \in Party : \A i \in CallId : ~Offered(p, i) /\ ~Left(p, i)
  BY <1>4 DEF Offered, Left
<1>6. InboxEmptyIdle /\ FramesOfThisCall /\ AnswersInv /\ OfferOnce
  BY <1>1, <1>4 DEF InboxEmptyIdle, FramesOfThisCall, AnswersInv, AnswersAccepted,
                    ConnectedIsAccepted, OfferOnce
<1>7. TogetherOrTold
  BY <1>4, <1>5 DEF TogetherOrTold, OffersNew, LeftIsOut, OfferStands, NotLeftAlone
<1> QED
  BY <1>2, <1>6, <1>7 DEF VoiceInv

\* The inductive invariant of the calls.
THEOREM VoiceInvariance == VoiceSpec => []VoiceInv
<1>1. VoiceInit => VoiceInv
  BY VoiceInitInv
<1>2. VoiceInv /\ [VoiceNext]_voiceVars => VoiceInv'
  BY VoiceStepTyped, InboxStep, AnswersStep, OfferOnceStep, TogetherStep DEF VoiceInv
<1> QED
  BY <1>1, <1>2, PTL DEF VoiceSpec

\* Whatever calls come and go while a frame is decrypted without the lock
\* (handle_voice_frame), pullvoicecallaudio plays frames of the call of the moment.
THEOREM FramesPlayedInTheirCall == VoiceSpec => []FramesOfThisCall
<1>1. VoiceInv => FramesOfThisCall
  BY DEF VoiceInv
<1> QED
  BY <1>1, VoiceInvariance, PTL

\* Nobody is connected to a callee who did not accept this call (handle_voice_answer).
THEOREM NobodyConnectedUnasked == VoiceSpec => []ConnectedIsAccepted
<1>1. VoiceInv => ConnectedIsAccepted
  BY DEF VoiceInv, AnswersInv
<1> QED
  BY <1>1, VoiceInvariance, PTL

\* A node is left alone in a call only if a signal of that call was lost or ignored
\* (start_voice_call, clear_voice_call_locked and the handlers of the signals).
THEOREM NobodyLeftAlone == VoiceSpec => []AloneOnlyIfIgnored
<1>1. ASSUME VoiceInv PROVE AloneOnlyIfIgnored
  <2> SUFFICES ASSUME \A p \in Party : duties[p] = {} /\ air[p] = {},
                      NEW p \in Party, call[p].id \notin ignored, call[p].id # None
               PROVE  call[Other(p)].id = call[p].id
    BY DEF AloneOnlyIfIgnored
  <2>1. Other(p) \in Party /\ Other(Other(p)) = p
    BY OtherParty
  <2>2. Said(p) = {} /\ Said(Other(p)) = {}
    BY <2>1 DEF Said
  <2>3. ~Offered(p, call[p].id) /\ ~Left(Other(p), call[p].id)
    BY <2>2 DEF Offered, Left
  <2> QED
    BY <1>1, <2>3 DEF VoiceInv, TogetherOrTold, NotLeftAlone, Active
<1> QED
  BY <1>1, VoiceInvariance, PTL

-----------------------------------------------------------------------------
(* Mail: a receipt of another node is verified by its own proof            *)

\* What may be under way on a wire: a proof has the label by which its sender calls
\* itself, and a receipt is not verified yet.
MailMessage(w) ==
  [kind : {"store"}] \cup [kind : {"challenge"}, id : Challenge]
    \cup [kind : {"proof"}, label : {OwnLabel(w[1], w[2])}, id : Challenge]
    \cup [kind : {"receipt"}, label : MailNode, receipt : {r \in Receipt : ~r.verified}]

IsRows(rows) == DOMAIN rows \subseteq MailNode /\ \A l \in DOMAIN rows : rows[l] \in Receipt
MailInv ==
  /\ DOMAIN receipts = MailNode /\ \A n \in MailNode : IsRows(receipts[n])
  /\ DOMAIN mailWire = Wires /\ \A w \in Wires : mailWire[w] \in Seq(MailMessage(w))

\* The sequence of a finite set is one of its elements.
LEMMA SetToSeqType ==
  ASSUME NEW S, IsFiniteSet(S) PROVE SetToSeq(S) \in Seq(S)
<1>1. Cardinality(S) \in Nat /\ ExistsBijection(1..Cardinality(S), S)
  BY FS_CardinalityType
<1>2. \E f \in [1..Cardinality(S) -> S] : IsInjective(f)
  BY <1>1 DEF ExistsBijection, Bijection, Injection
<1>3. SetToSeq(S) \in [1..Cardinality(S) -> S]
  BY <1>2 DEF SetToSeq
<1> QED
  BY <1>1, <1>3, SeqDef

\* A wire keeps its type when it loses its head or gains what belongs on it.
LEMMA WireTyped ==
  ASSUME NEW S, NEW s \in Seq(S)
  PROVE  /\ << >> \in Seq(S)
         /\ s # << >> => Tail(s) \in Seq(S) /\ s[1] \in S
         /\ \A x \in S : Append(s, x) \in Seq(S)
         /\ \A T \in SUBSET S : IsFiniteSet(T) => s \o SetToSeq(T) \in Seq(S)
<1>1. ASSUME NEW T \in SUBSET S, IsFiniteSet(T) PROVE s \o SetToSeq(T) \in Seq(S)
  <2>1. SetToSeq(T) \in Seq(T)
    BY <1>1, SetToSeqType
  <2>2. SetToSeq(T) \in Seq(S)
    BY <2>1
  <2> QED
    BY <2>2
<1> QED
  BY <1>1

LEMMA RowsTyped ==
  ASSUME NEW rows, IsRows(rows), NEW l \in MailNode, NEW r \in Receipt
  PROVE  /\ IsRows(WithRow(rows, l, r)) /\ DOMAIN WithRow(rows, l, r) = DOMAIN rows \cup {l}
         /\ WithRow(rows, l, r)[l] = r
         /\ \A k \in DOMAIN rows \ {l} : WithRow(rows, l, r)[k] = rows[k]
         /\ Slashed(r) \in Receipt /\ ~Slashed(r).verified
<1>1. Slashed(r) \in Receipt /\ ~Slashed(r).verified
  BY DEF Slashed, Receipt
<1> QED
  BY <1>1 DEF IsRows, WithRow

\* A row put into a table: what is verified anew is that row.
LEMMA UpsertEffect ==
  ASSUME MailInv, NEW n \in MailNode, NEW l \in MailNode, NEW r \in Receipt, Upsert(n, l, r)
  PROVE  /\ DOMAIN receipts' = MailNode /\ \A q \in MailNode : IsRows(receipts'[q])
         /\ \A q \in MailNode : \A k : VerifiedAs(receipts', q, k) =>
              VerifiedAs(receipts, q, k) \/ (q = n /\ k = l /\ r.verified)
<1>1. receipts' = [receipts EXCEPT ![n] = WithRow(receipts[n], l, r)]
  BY DEF Upsert
<1>2. /\ DOMAIN receipts' = MailNode /\ receipts'[n] = WithRow(receipts[n], l, r)
      /\ \A q \in MailNode : q # n => receipts'[q] = receipts[q]
  BY <1>1 DEF MailInv
<1>3. /\ IsRows(receipts'[n]) /\ DOMAIN receipts'[n] = DOMAIN receipts[n] \cup {l}
      /\ receipts'[n][l] = r
      /\ \A k \in DOMAIN receipts[n] \ {l} : receipts'[n][k] = receipts[n][k]
  <2> PICK rows : rows = receipts[n]
    OBVIOUS
  <2>1. IsRows(rows)
    BY DEF MailInv
  <2>2. /\ IsRows(WithRow(rows, l, r)) /\ DOMAIN WithRow(rows, l, r) = DOMAIN rows \cup {l}
        /\ WithRow(rows, l, r)[l] = r
        /\ \A k \in DOMAIN rows \ {l} : WithRow(rows, l, r)[k] = rows[k]
    BY <2>1, RowsTyped
  <2>3. receipts'[n] = WithRow(rows, l, r)
    BY <1>2
  <2> QED
    BY <2>2, <2>3
<1>4. \A q \in MailNode : IsRows(receipts'[q])
  BY <1>2, <1>3 DEF MailInv
<1>5. \A k : VerifiedAs(receipts', n, k) =>
        VerifiedAs(receipts, n, k) \/ (k = l /\ r.verified)
  BY <1>3 DEF VerifiedAs
<1>6. \A q \in MailNode : q # n => \A k : VerifiedAs(receipts', q, k) => VerifiedAs(receipts, q, k)
  BY <1>2 DEF VerifiedAs
<1> QED
  BY <1>2, <1>4, <1>5, <1>6

\* The challenges that a node issues go onto its own wires, and verify nothing.
LEMMA IssueChallengesEffect ==
  ASSUME MailInv, NEW n \in MailNode, NEW rs, IsRows(rs), NEW these \in SUBSET DOMAIN rs,
         NEW due, NEW still, NEW wire, \A w \in Wires : wire[w] \in Seq(MailMessage(w)),
         IssueChallenges(n, rs, these, due, still, wire)
  PROVE  /\ DOMAIN receipts' = MailNode /\ \A q \in MailNode : IsRows(receipts'[q])
         /\ \A q \in MailNode : \A k : VerifiedAs(receipts', q, k) =>
              IF q = n THEN k \in DOMAIN rs /\ rs[k].verified ELSE VerifiedAs(receipts, q, k)
         /\ DOMAIN mailWire' = Wires /\ \A w \in Wires : mailWire'[w] \in Seq(MailMessage(w))
<1> DEFINE bad == {l \in these : Untrusted(rs, l)}
           ask == {l \in these : ToChallenge(rs, due, l)}
           new == {NewChallenge(n, l) : l \in ask}
           For(m) == {[kind |-> "challenge", id |-> c] :
                        c \in {d \in new : m \in MailTargets(n, d.of)}}
           table == [l \in DOMAIN rs |->
                       IF l \in bad THEN Slashed(rs[l])
                       ELSE IF l \in ask THEN [rs[l] EXCEPT !.challenged = TRUE]
                       ELSE rs[l]]
<1>1. /\ \A l \in ask : Unused(n, l) # {}
      /\ receipts' = [receipts EXCEPT ![n] = table]
      /\ mailWire' = [w \in Wires |->
           IF w[1] = n THEN wire[w] \o SetToSeq(For(w[2])) ELSE wire[w]]
  BY DEF IssueChallenges
<1>2. ask \subseteq MailNode /\ IsFiniteSet(ask)
  BY MailAssumption, FS_Subset DEF IsRows
<1>3. new \subseteq Challenge /\ IsFiniteSet(new)
  <2>1. \A l \in ask : NewChallenge(n, l) \in Challenge
    BY <1>1, <1>2 DEF NewChallenge, Unused, Challenge
  <2> DEFINE g == [l \in ask |-> NewChallenge(n, l)]
  <2> HIDE DEF ask
  <2>2. g \in Surjection(ask, new)
    BY DEF Surjection
  <2> QED
    BY <1>2, <2>1, <2>2, FS_Surjection
<1>4. ASSUME NEW m PROVE For(m) \subseteq [kind : {"challenge"}, id : Challenge]
                         /\ IsFiniteSet(For(m))
  <2> DEFINE A == {d \in new : m \in MailTargets(n, d.of)}
             g == [c \in A |-> [kind |-> "challenge", id |-> c]]
  <2>1. A \subseteq Challenge /\ IsFiniteSet(A)
    BY <1>3, FS_Subset
  <2>2. For(m) = {[kind |-> "challenge", id |-> c] : c \in A}
    OBVIOUS
  <2> HIDE DEF A, For
  <2>3. g \in Surjection(A, For(m))
    BY <2>2 DEF Surjection
  <2> QED
    BY <2>1, <2>2, <2>3, FS_Surjection
<1>5. IsRows(table) /\ \A k \in DOMAIN rs : table[k].verified => rs[k].verified
  <2> SUFFICES ASSUME NEW k \in DOMAIN rs
               PROVE  table[k] \in Receipt /\ (table[k].verified => rs[k].verified)
    BY DEF IsRows
  <2>1. rs[k] \in Receipt
    BY DEF IsRows
  <2>2. /\ Slashed(rs[k]) \in Receipt /\ ~Slashed(rs[k]).verified
        /\ [rs[k] EXCEPT !.challenged = TRUE] \in Receipt
        /\ [rs[k] EXCEPT !.challenged = TRUE].verified = rs[k].verified
    BY <2>1 DEF Slashed, Receipt
  <2> QED
    BY <2>1, <2>2
<1> HIDE DEF table, For, new, ask, bad
<1>6. /\ DOMAIN receipts' = MailNode /\ receipts'[n] = table
      /\ \A q \in MailNode : q # n => receipts'[q] = receipts[q]
  BY <1>1 DEF MailInv
<1>7. DOMAIN table = DOMAIN rs
  BY DEF table
<1>8. /\ \A q \in MailNode : IsRows(receipts'[q])
      /\ \A q \in MailNode : \A k : VerifiedAs(receipts', q, k) =>
           IF q = n THEN k \in DOMAIN rs /\ rs[k].verified ELSE VerifiedAs(receipts, q, k)
  BY <1>5, <1>6, <1>7 DEF MailInv, VerifiedAs
<1>9. ASSUME NEW w \in Wires PROVE mailWire'[w] \in Seq(MailMessage(w))
  <2>1. For(w[2]) \subseteq MailMessage(w) /\ IsFiniteSet(For(w[2]))
    BY <1>4 DEF MailMessage
  <2> QED
    BY <1>1, <2>1, WireTyped
<1> QED
  BY <1>1, <1>6, <1>8, <1>9

\* One step keeps the wires honest, and what it verifies of another node is what that
\* node has proved: the label of a proof is its sender's, or that of the receiver.
VerifiesByProof ==
  \A n \in MailNode : \A l \in Advertised \ {n} :
    (VerifiedAs(receipts', n, l) /\ ~VerifiedAs(receipts, n, l)) => Arriving(l, n, "proof")

LEMMA SameReceipts ==
  ASSUME MailInv, UNCHANGED receipts PROVE VerifiesByProof
BY DEF VerifiesByProof, VerifiedAs

\* A message taken off its wire, and one put on the wire back.
LEMMA TakenAndReply ==
  ASSUME MailInv, NEW a, NEW b, <<a, b>> \in Wires, NEW kind, Arriving(a, b, kind)
  PROVE  /\ a \in MailNode /\ b \in MailNode /\ a # b /\ <<b, a>> \in Wires
         /\ mailWire[<<a, b>>][1] \in MailMessage(<<a, b>>)
         /\ DOMAIN Taken(a, b) = Wires
         /\ \A w \in Wires : Taken(a, b)[w] \in Seq(MailMessage(w))
         /\ \A m \in MailMessage(<<b, a>>) :
              /\ DOMAIN Reply(a, b, m) = Wires
              /\ \A w \in Wires : Reply(a, b, m)[w] \in Seq(MailMessage(w))
<1>1. a \in MailNode /\ b \in MailNode /\ a # b /\ <<b, a>> \in Wires
  BY DEF Wires
<1>2. mailWire[<<a, b>>] \in Seq(MailMessage(<<a, b>>)) /\ mailWire[<<a, b>>] # << >>
  BY DEF MailInv, Arriving
<1>3. Tail(mailWire[<<a, b>>]) \in Seq(MailMessage(<<a, b>>))
      /\ mailWire[<<a, b>>][1] \in MailMessage(<<a, b>>)
  BY <1>2, WireTyped
<1>4. /\ DOMAIN Taken(a, b) = Wires
      /\ Taken(a, b)[<<a, b>>] = Tail(mailWire[<<a, b>>])
      /\ \A w \in Wires : w # <<a, b>> => Taken(a, b)[w] = mailWire[w]
  BY DEF MailInv, Taken
<1>5. \A w \in Wires : Taken(a, b)[w] \in Seq(MailMessage(w))
  BY <1>3, <1>4 DEF MailInv
<1>6. ASSUME NEW m \in MailMessage(<<b, a>>)
      PROVE  /\ DOMAIN Reply(a, b, m) = Wires
             /\ \A w \in Wires : Reply(a, b, m)[w] \in Seq(MailMessage(w))
  <2>1. Append(Taken(a, b)[<<b, a>>], m) \in Seq(MailMessage(<<b, a>>))
    BY <1>1, <1>5, <1>6, WireTyped
  <2>2. /\ DOMAIN Reply(a, b, m) = Wires
        /\ Reply(a, b, m)[<<b, a>>] = Append(Taken(a, b)[<<b, a>>], m)
        /\ \A w \in Wires : w # <<b, a>> => Reply(a, b, m)[w] = Taken(a, b)[w]
    BY <1>1, <1>4 DEF Reply
  <2> QED
    BY <1>5, <2>1, <2>2
<1> QED
  BY <1>1, <1>3, <1>4, <1>5, <1>6

LEMMA OwnLabelTyped ==
  ASSUME NEW b \in MailNode, NEW a \in MailNode PROVE OwnLabel(b, a) \in MailNode
BY DEF OwnLabel

LEMMA StoreStep ==
  ASSUME MailInv, NEW a, NEW b, <<a, b>> \in Wires, ReceiveStore(a, b)
  PROVE  MailInv' /\ VerifiesByProof
<1> DEFINE l == OwnLabel(b, a)
           r == [signer |-> b, signed |-> b \in keyed, signedFor |-> l,
                 challenged |-> FALSE, verified |-> FALSE, slashed |-> FALSE]
           m == [kind |-> "receipt", label |-> l, receipt |-> r]
<1>1. /\ Arriving(a, b, "store") /\ Upsert(b, l, r) /\ mailWire' = Reply(a, b, m)
  BY DEF ReceiveStore
<1>2. l \in MailNode /\ b \in MailNode
  BY <1>1, TakenAndReply, OwnLabelTyped
<1>3. r \in Receipt /\ ~r.verified
  BY <1>2 DEF Receipt
<1>4. m \in MailMessage(<<b, a>>)
  <2> HIDE DEF l, r
  <2> QED
    BY <1>2, <1>3 DEF MailMessage
<1> HIDE DEF l, r, m
<1>5. DOMAIN mailWire' = Wires /\ \A w \in Wires : mailWire'[w] \in Seq(MailMessage(w))
  BY <1>1, <1>4, TakenAndReply
<1>6. /\ DOMAIN receipts' = MailNode /\ \A q \in MailNode : IsRows(receipts'[q])
      /\ \A q \in MailNode : \A k : VerifiedAs(receipts', q, k) => VerifiedAs(receipts, q, k)
  BY <1>1, <1>2, <1>3, UpsertEffect
<1> QED
  BY <1>5, <1>6 DEF MailInv, MailMessage, VerifiesByProof

LEMMA ReceiptStep ==
  ASSUME MailInv, NEW a, NEW b, <<a, b>> \in Wires, ReceiveReceipt(a, b)
  PROVE  MailInv' /\ VerifiesByProof
<1> PICK m : m = mailWire[<<a, b>>][1]
  OBVIOUS
<1>1. /\ Arriving(a, b, "receipt") /\ b \in MailNode /\ m.kind = "receipt"
      /\ m \in MailMessage(<<a, b>>)
  BY TakenAndReply DEF ReceiveReceipt, Arriving
<1>2. m.label \in MailNode /\ m.receipt \in Receipt /\ ~m.receipt.verified
  BY <1>1 DEF MailMessage
<1> DEFINE rs == WithRow(receipts[b], m.label, m.receipt)
<1>3. CASE SignatureValid(m.receipt, m.label)
  <2>1. IssueChallenges(b, rs, {m.label}, {}, open, Taken(a, b))
    BY <1>3 DEF ReceiveReceipt
  <2>2. PICK rows : rows = receipts[b] /\ IsRows(rows)
    BY <1>1 DEF MailInv
  <2>3. /\ IsRows(rs) /\ DOMAIN rs = DOMAIN rows \cup {m.label} /\ rs[m.label] = m.receipt
        /\ \A k \in DOMAIN rows \ {m.label} : rs[k] = rows[k]
    <3> PICK l, r : l = m.label /\ r = m.receipt
      OBVIOUS
    <3>1. /\ IsRows(WithRow(rows, l, r)) /\ DOMAIN WithRow(rows, l, r) = DOMAIN rows \cup {l}
          /\ WithRow(rows, l, r)[l] = r
          /\ \A k \in DOMAIN rows \ {l} : WithRow(rows, l, r)[k] = rows[k]
      BY <1>2, <2>2, RowsTyped
    <3>2. rs = WithRow(rows, l, r)
      BY <2>2
    <3> HIDE DEF rs
    <3> QED
      BY <3>1, <3>2
  <2> HIDE DEF rs
  <2>4. /\ DOMAIN receipts' = MailNode /\ \A q \in MailNode : IsRows(receipts'[q])
        /\ \A q \in MailNode : \A k : VerifiedAs(receipts', q, k) =>
             IF q = b THEN k \in DOMAIN rs /\ rs[k].verified ELSE VerifiedAs(receipts, q, k)
        /\ DOMAIN mailWire' = Wires /\ \A w \in Wires : mailWire'[w] \in Seq(MailMessage(w))
    BY <1>1, <2>1, <2>3, TakenAndReply, IssueChallengesEffect
  <2>5. ASSUME NEW q \in MailNode, NEW k, VerifiedAs(receipts', q, k)
        PROVE  VerifiedAs(receipts, q, k)
    <3>1. CASE q # b
      BY <2>4, <2>5, <3>1
    <3>2. CASE q = b
      <4>1. k \in DOMAIN rs /\ rs[k].verified
        BY <2>4, <2>5, <3>2
      <4>2. k # m.label
        BY <1>2, <2>3, <4>1
      <4>3. k \in DOMAIN rows /\ rs[k] = rows[k]
        BY <2>3, <4>1, <4>2
      <4> QED
        BY <2>2, <3>2, <4>1, <4>3 DEF VerifiedAs
    <3> QED
      BY <3>1, <3>2
  <2> QED
    BY <2>4, <2>5 DEF MailInv, MailMessage, VerifiesByProof
<1>4. CASE ~SignatureValid(m.receipt, m.label)
  <2>1. Upsert(b, m.label, Slashed(m.receipt)) /\ mailWire' = Taken(a, b)
    BY <1>4 DEF ReceiveReceipt
  <2>2. Slashed(m.receipt) \in Receipt /\ ~Slashed(m.receipt).verified
    BY <1>2 DEF Slashed, Receipt
  <2>3. /\ DOMAIN receipts' = MailNode /\ \A q \in MailNode : IsRows(receipts'[q])
        /\ \A q \in MailNode : \A k : VerifiedAs(receipts', q, k) => VerifiedAs(receipts, q, k)
    BY <1>1, <1>2, <2>1, <2>2, UpsertEffect
  <2>4. DOMAIN mailWire' = Wires /\ \A w \in Wires : mailWire'[w] \in Seq(MailMessage(w))
    BY <1>1, <2>1, TakenAndReply
  <2> QED
    BY <2>3, <2>4 DEF MailInv, MailMessage, VerifiesByProof
<1> QED
  BY <1>3, <1>4

LEMMA ChallengeStep ==
  ASSUME MailInv, NEW a, NEW b, <<a, b>> \in Wires, ReceiveChallenge(a, b)
  PROVE  MailInv' /\ VerifiesByProof
<1> DEFINE m == [kind |-> "proof", label |-> OwnLabel(b, a), id |-> mailWire[<<a, b>>][1].id]
<1>1. /\ Arriving(a, b, "challenge") /\ UNCHANGED receipts
      /\ mailWire' = Reply(a, b, m) \/ mailWire' = Taken(a, b)
  BY DEF ReceiveChallenge
<1>2. m \in MailMessage(<<b, a>>)
  <2>1. mailWire[<<a, b>>][1] \in MailMessage(<<a, b>>) /\ mailWire[<<a, b>>][1].kind = "challenge"
    BY <1>1, TakenAndReply DEF Arriving
  <2>2. mailWire[<<a, b>>][1].id \in Challenge
    BY <2>1 DEF MailMessage
  <2> QED
    BY <2>2 DEF MailMessage
<1> HIDE DEF m
<1>3. DOMAIN mailWire' = Wires /\ \A w \in Wires : mailWire'[w] \in Seq(MailMessage(w))
  BY <1>1, <1>2, TakenAndReply
<1> QED
  BY <1>1, <1>3, SameReceipts DEF MailInv, MailMessage

LEMMA ProofStep ==
  ASSUME MailInv, NEW a, NEW b, <<a, b>> \in Wires, ReceiveProof(a, b)
  PROVE  MailInv' /\ VerifiesByProof
<1> PICK m : m = mailWire[<<a, b>>][1]
  OBVIOUS
<1>1. /\ Arriving(a, b, "proof") /\ a \in MailNode /\ b \in MailNode /\ m.kind = "proof"
      /\ m \in MailMessage(<<a, b>>) /\ mailWire' = Taken(a, b)
  BY TakenAndReply DEF ReceiveProof, Arriving
<1>2. m.label = OwnLabel(a, b) /\ m.label \in MailNode
  BY <1>1, OwnLabelTyped DEF MailMessage
<1>3. DOMAIN mailWire' = Wires /\ \A w \in Wires : mailWire'[w] \in Seq(MailMessage(w))
  BY <1>1, TakenAndReply
<1>4. CASE UNCHANGED receipts
  BY <1>3, <1>4, SameReceipts DEF MailInv, MailMessage
<1>5. ASSUME NEW r \in Receipt, Upsert(b, m.label, r) PROVE MailInv' /\ VerifiesByProof
  <2>1. /\ DOMAIN receipts' = MailNode /\ \A q \in MailNode : IsRows(receipts'[q])
        /\ \A q \in MailNode : \A k : VerifiedAs(receipts', q, k) =>
             VerifiedAs(receipts, q, k) \/ (q = b /\ k = m.label)
    BY <1>1, <1>2, <1>5, UpsertEffect
  <2>2. \A k \in Advertised \ {b} : k = m.label => k = a
    BY <1>2 DEF OwnLabel
  <2>3. VerifiesByProof
    BY <1>1, <2>1, <2>2 DEF VerifiesByProof
  <2> QED
    BY <1>3, <2>1, <2>3 DEF MailInv, MailMessage
<1>6. CASE ~UNCHANGED receipts
  <2>1. PICK l \in DOMAIN receipts[b] :
          \/ Upsert(b, m.label, [receipts[b][l] EXCEPT !.verified = TRUE, !.challenged = TRUE])
          \/ Upsert(b, m.label, Slashed(receipts[b][l]))
    BY <1>6 DEF ReceiveProof, ProvenLabel
  <2>2. receipts[b][l] \in Receipt
    BY <1>1, <2>1 DEF MailInv, IsRows
  <2>3. [receipts[b][l] EXCEPT !.verified = TRUE, !.challenged = TRUE] \in Receipt
    BY <2>2 DEF Receipt
  <2>4. Slashed(receipts[b][l]) \in Receipt
    BY <2>2 DEF Slashed, Receipt
  <2> QED
    BY <1>5, <2>1, <2>3, <2>4
<1> QED
  BY <1>4, <1>6

\* Receipts dropped, as a whole, verify nothing.
LEMMA DropStep ==
  ASSUME MailInv, NEW n \in MailNode, receipts' = [receipts EXCEPT ![n] = << >>],
         UNCHANGED mailWire
  PROVE  MailInv' /\ VerifiesByProof
<1>1. DOMAIN << >> = {} /\ IsRows(<< >>)
  BY DEF IsRows
<1>2. /\ DOMAIN receipts' = MailNode /\ receipts'[n] = << >>
      /\ \A q \in MailNode : q # n => receipts'[q] = receipts[q]
  BY DEF MailInv
<1> QED
  BY <1>1, <1>2 DEF MailInv, MailMessage, VerifiesByProof, VerifiedAs

LEMMA MaintainStep ==
  ASSUME MailInv, NEW n \in MailNode, MaintainMail(n)
  PROVE  MailInv' /\ VerifiesByProof
<1> PICK rows : rows = receipts[n]
  OBVIOUS
<1> DEFINE rsOf(late) == [l \in DOMAIN rows |-> IF l \in late THEN Slashed(rows[l]) ELSE rows[l]]
<1>1. PICK late, due, still :
        IssueChallenges(n, rsOf(late), DOMAIN rsOf(late), due, still, mailWire)
  BY DEF MaintainMail
<1>2. IsRows(rows)
  BY DEF MailInv
<1>3. /\ IsRows(rsOf(late)) /\ DOMAIN rsOf(late) = DOMAIN rows
      /\ \A k \in DOMAIN rows : rsOf(late)[k].verified => rows[k].verified
  <2> SUFFICES ASSUME NEW k \in DOMAIN rows
               PROVE  rsOf(late)[k] \in Receipt /\ (rsOf(late)[k].verified => rows[k].verified)
    BY <1>2 DEF IsRows
  <2>1. rows[k] \in Receipt
    BY <1>2 DEF IsRows
  <2>2. Slashed(rows[k]) \in Receipt /\ ~Slashed(rows[k]).verified
    BY <2>1 DEF Slashed, Receipt
  <2> QED
    BY <2>1, <2>2
<1>4. PICK rs : rs = rsOf(late)
  OBVIOUS
<1> HIDE DEF rsOf
<1>5. /\ DOMAIN receipts' = MailNode /\ \A q \in MailNode : IsRows(receipts'[q])
      /\ \A q \in MailNode : \A k : VerifiedAs(receipts', q, k) =>
           IF q = n THEN k \in DOMAIN rs /\ rs[k].verified ELSE VerifiedAs(receipts, q, k)
      /\ DOMAIN mailWire' = Wires /\ \A w \in Wires : mailWire'[w] \in Seq(MailMessage(w))
  <2>1. IssueChallenges(n, rs, DOMAIN rs, due, still, mailWire) /\ IsRows(rs)
    BY <1>1, <1>3, <1>4
  <2>2. \A w \in Wires : mailWire[w] \in Seq(MailMessage(w))
    BY DEF MailInv
  <2> QED
    BY <2>1, <2>2, IssueChallengesEffect
<1>6. \A q \in MailNode : \A k : VerifiedAs(receipts', q, k) => VerifiedAs(receipts, q, k)
  BY <1>3, <1>4, <1>5 DEF VerifiedAs
<1> QED
  BY <1>5, <1>6 DEF MailInv, MailMessage, VerifiesByProof

LEMMA MailStep ==
  ASSUME MailInv, [MailNext]_mailVars
  PROVE  MailInv' /\ VerifiesByProof
<1>1. ASSUME UNCHANGED <<receipts, mailWire>> PROVE MailInv' /\ VerifiesByProof
  BY <1>1, SameReceipts DEF MailInv, MailMessage
<1>2. CASE SendMail
  <2>1. ASSUME NEW w \in Wires PROVE mailWire'[w] \in Seq(MailMessage(w))
    <3>1. [kind |-> "store"] \in MailMessage(w)
      BY DEF MailMessage
    <3>2. Append(mailWire[w], [kind |-> "store"]) \in Seq(MailMessage(w))
      BY <3>1, WireTyped DEF MailInv
    <3> QED
      BY <1>2, <3>2 DEF SendMail, MailInv
  <2>2. UNCHANGED receipts /\ DOMAIN mailWire' = Wires
    BY <1>2 DEF SendMail
  <2> QED
    BY <2>1, <2>2, SameReceipts DEF MailInv, MailMessage
<1>3. ASSUME NEW n \in MailNode, DeleteMail(n) \/ PruneMail(n) PROVE MailInv' /\ VerifiesByProof
  BY <1>3, DropStep DEF DeleteMail, PruneMail
<1>4. ASSUME NEW n \in MailNode, EvictMail(n) \/ SpendBond(n) \/ DropWallet(n)
      PROVE  MailInv' /\ VerifiesByProof
  BY <1>1, <1>4 DEF EvictMail, SpendBond, DropWallet
<1>5. ASSUME NEW n \in MailNode, MaintainMail(n) PROVE MailInv' /\ VerifiesByProof
  BY <1>5, MaintainStep
<1>6. ASSUME NEW w \in Wires, \/ ReceiveStore(w[1], w[2]) \/ ReceiveReceipt(w[1], w[2])
                              \/ ReceiveChallenge(w[1], w[2]) \/ ReceiveProof(w[1], w[2])
      PROVE  MailInv' /\ VerifiesByProof
  <2>1. <<w[1], w[2]>> \in Wires
    BY DEF Wires
  <2> QED
    BY <1>6, <2>1, StoreStep, ReceiptStep, ChallengeStep, ProofStep
<1>7. ASSUME NEW pair \in Link, LoseLink(pair) PROVE MailInv' /\ VerifiesByProof
  <2>1. \A w \in Wires : mailWire'[w] \in Seq(MailMessage(w))
    BY <1>7, WireTyped DEF LoseLink, MailInv
  <2>2. UNCHANGED receipts /\ DOMAIN mailWire' = Wires
    BY <1>7 DEF LoseLink
  <2> QED
    BY <2>1, <2>2, SameReceipts DEF MailInv, MailMessage
<1>8. ASSUME NEW pair \in Link, Relink(pair) PROVE MailInv' /\ VerifiesByProof
  BY <1>1, <1>8 DEF Relink
<1>9. CASE UNCHANGED mailVars
  BY <1>1, <1>9 DEF mailVars
<1> QED
  BY <1>2, <1>3, <1>4, <1>5, <1>6, <1>7, <1>8, <1>9 DEF MailNext

LEMMA MailInvariance == MailSpec => []MailInv
<1>1. MailInit => MailInv
  <2>1. DOMAIN << >> = {} /\ IsRows(<< >>)
    BY DEF IsRows
  <2>2. \A w : << >> \in Seq(MailMessage(w))
    OBVIOUS
  <2> QED
    BY <2>1, <2>2 DEF MailInit, MailInv
<1>2. MailInv /\ [MailNext]_mailVars => MailInv'
  BY MailStep
<1> QED
  BY <1>1, <1>2, PTL DEF MailSpec

\* Whoever answers a challenge that was meant for another node (handle_mail_challenge and
\* handle_mail_proof): a receipt of a node that advertises itself is verified only by a
\* proof from that node.
THEOREM VerifiedByItsReplica == MailSpec => VerifiedByReplica
<1>1. MailInv /\ [MailNext]_mailVars => [VerifiesByProof]_mailVars
  BY MailStep
<1>2. [VerifiesByProof]_mailVars => 
        [\A n \in MailNode : \A l \in Advertised \ {n} :
           (VerifiedAs(receipts', n, l) /\ ~VerifiedAs(receipts, n, l))
             => Arriving(l, n, "proof")]_mailVars
  BY DEF VerifiesByProof
<1> QED
  BY <1>1, <1>2, MailInvariance, PTL DEF MailSpec, VerifiedByReplica

-----------------------------------------------------------------------------
(* Peers                                                                   *)

\* The fields of a dial, of whatever values, and that it has no others.
DialsAreRecords ==
  \A d \in dials : d = [to |-> d.to, no |-> d.no, out |-> d.out, stage |-> d.stage]
PeersInv == DialsAreRecords /\ PendingIsUnderWay

\* The labels connect takes (begin_pending_connect) get a dial each.
LEMMA BeginKeeps ==
  ASSUME PeersInv, NEW peers, Begin(peers)
  PROVE  PeersInv'
<1>1. DialsAreRecords'
  BY DEF PeersInv, DialsAreRecords, Begin, NewDial
<1>2. ASSUME NEW p \in pendingConnects'
      PROVE  \E d \in dials' : d.to = p /\ d.stage # "admitted"
  <2>1. CASE p \in peers
    <3> DEFINE new == NewDial(p, TRUE, "resolving")
    <3>1. new \in dials'
      BY <2>1 DEF Begin
    <3>2. new.to = p /\ new.stage = "resolving"
      BY DEF NewDial
    <3> QED
      BY <3>1, <3>2
  <2>2. CASE p \in pendingConnects
    BY <2>2 DEF Begin, PeersInv, PendingIsUnderWay
  <2> QED
    BY <1>2, <2>1, <2>2 DEF Begin
<1> QED
  BY <1>1, <1>2 DEF PeersInv, PendingIsUnderWay

\* A dial that ends takes its label out of the set (end_pending_connect), so the
\* other labels keep theirs.
LEMMA EndKeeps ==
  ASSUME PeersInv, NEW d \in dials, EndPending(d.to),
         dials' = dials \ {d} \/ To(d, "admitted")
  PROVE  PeersInv'
<1>1. DialsAreRecords'
  BY DEF PeersInv, DialsAreRecords, To
<1>2. PendingIsUnderWay'
  <2> SUFFICES ASSUME NEW p \in pendingConnects, p # d.to
               PROVE  \E e \in dials' : e.to = p /\ e.stage # "admitted"
    BY DEF PendingIsUnderWay, EndPending
  <2>1. PICK e \in dials : e.to = p /\ e.stage # "admitted"
    BY DEF PeersInv, PendingIsUnderWay
  <2>2. e \in dials'
    BY <2>1 DEF To
  <2> QED
    BY <2>1, <2>2
<1> QED
  BY <1>1, <1>2 DEF PeersInv

\* A dial that gets on to its connection still stands for its label.
LEMMA MovedKeeps ==
  ASSUME PeersInv, NEW d \in dials, To(d, "connecting"), UNCHANGED pendingConnects
  PROVE  PeersInv'
<1> DEFINE moved == [d EXCEPT !.stage = "connecting"]
<1>1. moved.to = d.to /\ moved.stage = "connecting" /\ moved \in dials'
  BY DEF PeersInv, DialsAreRecords, To
<1>2. DialsAreRecords'
  BY DEF PeersInv, DialsAreRecords, To
<1>3. PendingIsUnderWay'
  <2> SUFFICES ASSUME NEW p \in pendingConnects
               PROVE  \E e \in dials' : e.to = p /\ e.stage # "admitted"
    BY DEF PendingIsUnderWay
  <2>1. PICK e \in dials : e.to = p /\ e.stage # "admitted"
    BY DEF PeersInv, PendingIsUnderWay
  <2>2. CASE e = d
    BY <1>1, <2>1, <2>2
  <2>3. CASE e # d
    BY <2>1, <2>3 DEF To
  <2> QED
    BY <2>2, <2>3
<1> QED
  BY <1>2, <1>3 DEF PeersInv

\* What only adds dials that are admitted already, or removes such, and takes no label,
\* leaves the labels to the dials they had (do_accept, the push on sessions_).
LEMMA AdmittedKeeps ==
  ASSUME PeersInv, pendingConnects' \subseteq pendingConnects,
         \A d \in dials : d.stage # "admitted" => d \in dials',
         DialsAreRecords'
  PROVE  PeersInv'
  BY DEF PeersInv, PendingIsUnderWay

LEMMA Initially == PeersInit => PeersInv
  BY DEF PeersInit, PeersInv, DialsAreRecords, PendingIsUnderWay

LEMMA Preserved == PeersInv /\ [PeersNext]_peersVars => PeersInv'
<1> SUFFICES ASSUME PeersInv, [PeersNext]_peersVars
             PROVE  PeersInv'
  OBVIOUS
<1>0. ASSUME UNCHANGED <<pendingConnects, dials>> PROVE PeersInv'
  BY <1>0 DEF PeersInv, DialsAreRecords, PendingIsUnderWay
<1>1. ASSUME DialKnown PROVE PeersInv'
  BY <1>1, BeginKeeps DEF DialKnown
<1>2. CASE MaintainPeers
  BY <1>2, <1>1 DEF MaintainPeers
<1>3. CASE SwitchOn
  BY <1>3, <1>1 DEF SwitchOn
<1>4. ASSUME NEW p \in Node, BeginDial(p) PROVE PeersInv'
  <2>1. CASE p \in pendingConnects
    BY <1>4, <2>1, <1>0 DEF BeginDial
  <2>2. CASE p \notin pendingConnects
    BY <1>4, <2>2, BeginKeeps DEF BeginDial
  <2> QED
    BY <2>1, <2>2
<1>5. ASSUME NEW p \in Node, Accept(p) PROVE PeersInv'
  <2>1. DialsAreRecords'
    BY <1>5 DEF Accept, NewDial, PeersInv, DialsAreRecords
  <2> QED
    BY <1>5, <2>1, AdmittedKeeps DEF Accept
<1>6. ASSUME NEW d \in dials, DialStep(d) PROVE PeersInv'
  <2>1. CASE Resolved(d)
    <3>1. CASE active
      BY <2>1, <3>1, MovedKeeps DEF Resolved
    <3>2. CASE ~active
      BY <2>1, <3>2, EndKeeps DEF Resolved
    <3> QED
      BY <3>1, <3>2
  <2>2. CASE DialFails(d)
    BY <2>2, EndKeeps DEF DialFails
  <2>3. CASE DialConnects(d)
    BY <2>3, EndKeeps DEF DialConnects
  <2>4. CASE AddSession(d)
    <3>1. DialsAreRecords'
      BY <2>4 DEF AddSession, PeersInv, DialsAreRecords
    <3> QED
      BY <2>4, <3>1, AdmittedKeeps DEF AddSession
  <2> QED
    BY <1>6, <2>1, <2>2, <2>3, <2>4 DEF DialStep
<1>7. CASE ClearPending
  BY <1>7 DEF ClearPending, PeersInv, DialsAreRecords, PendingIsUnderWay
<1>8. ASSUME NEW p \in Node,
             CallConnect(p) \/ SetBan(p) \/ BanExpires(p) \/ GoDown(p) \/ ComeUp(p)
      PROVE  PeersInv'
  BY <1>8, <1>0 DEF CallConnect, SetBan, BanExpires, GoDown, ComeUp
<1>9. ASSUME NEW s \in listed, ReceiveVersionOf(s) \/ LoseSession(s) \/ Punish(s)
      PROVE  PeersInv'
  BY <1>9, <1>0 DEF ReceiveVersionOf, LoseSession, Punish
<1>10. CASE ClearBans \/ SwitchOff \/ CloseSessions
  BY <1>10, <1>0 DEF ClearBans, SwitchOff, CloseSessions
<1>11. CASE UNCHANGED peersVars
  BY <1>11, <1>0 DEF peersVars
<1> QED
  BY <1>2, <1>3, <1>4, <1>5, <1>6, <1>7, <1>8, <1>9, <1>10, <1>11 DEF PeersNext

\* However calls, timers, failures, the switch and inbound sessions interleave, no
\* label is left in pending_connects_ without a dial that will take it out.
THEOREM PendingStaysUnderWay == PeersSpec => []PendingIsUnderWay
<1>1. PeersInv => PendingIsUnderWay
  BY DEF PeersInv
<1> QED
  BY <1>1, Initially, Preserved, PTL DEF PeersSpec
=============================================================================
