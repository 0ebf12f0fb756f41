----------------------------- MODULE MailReplicas -----------------------------
(***************************************************************************)
(* Storage proofs for one p2p mail (src/src/network.cpp): the origin gives *)
(* copies of a mail to its peers; each answers with a signed receipt, and  *)
(* whoever keeps a receipt challenges the replica it names, first at once, *)
(* then every half hour.  A challenge that stays unanswered, or a proof    *)
(* that does not fit, slashes the receipt and punishes a peer.             *)
(*                                                                         *)
(* A node is known by one label.  replica_target is at least the number of *)
(* peers, as by default in a small network, so a fan-out reaches them all. *)
(* Handlers run on the network thread of their node, one at a time.        *)
(***************************************************************************)
EXTENDS Integers, Sequences, FiniteSets, SequencesExt

CONSTANTS
  MailNode,     \* the nodes, each also its label
  Origin,       \* the node that sends the mail
  Advertised,   \* the nodes that know their own endpoint (advertised_self_)
  MaxOpen,      \* bound: open challenges of a node to one label
  MaxMailLoss   \* bound: sessions, records, bonds and wallets lost

ASSUME MailAssumption ==
  /\ IsFiniteSet(MailNode) /\ Origin \in MailNode
  /\ Advertised \subseteq MailNode

VARIABLES
  sent,         \* the origin has sent the mail
  holds,        \* nodes with the record in distributed_mail_file_
  receipts,     \* mail_receipts_file_ of each node: its rows by replica_label
  open,         \* pending_mail_challenges_ of all nodes
  linked,       \* the pairs of nodes with a session
  mailWire,     \* what is under way from one node to another
  bonded,       \* nodes whose address holds the minimum bond
  keyed,        \* nodes with a chat wallet, which sign their receipts
  mailLosses
mailVars == <<sent, holds, receipts, open, linked, mailWire, bonded, keyed, mailLosses>>

Challenge == [by : MailNode, of : MailNode, no : 1..MaxOpen]
Receipt == [signer : MailNode, signed : BOOLEAN, signedFor : MailNode,
            challenged : BOOLEAN, verified : BOOLEAN, slashed : BOOLEAN]
Link == {pair \in SUBSET MailNode : Cardinality(pair) = 2}
Wires == {w \in MailNode \X MailNode : w[1] # w[2]}
Peers(n) == {m \in MailNode : {n, m} \in linked}

\* verify_mail_receipt_signature: the label is part of what is signed.
SignatureValid(r, l) == r.signed /\ r.signedFor = l
\* refresh_mail_receipt_bond.
BondSatisfied(r) == r.signed /\ r.signer \in bonded

Slashed(r) == [r EXCEPT !.verified = FALSE, !.slashed = TRUE]
\* upsert_mail_storage_receipt.
WithRow(rows, l, r) == [k \in DOMAIN rows \cup {l} |-> IF k = l THEN r ELSE rows[k]]
Upsert(n, l, r) == receipts' = [receipts EXCEPT ![n] = WithRow(@, l, r)]

\* How the node b calls itself towards the peer a.
OwnLabel(b, a) == IF b \in Advertised THEN b ELSE a

\* send_to_or_relay_mail_peer: the peer with that label, or else all others.
\* Nobody forwards such a message: a "relay" handles it as its own.
MailTargets(n, l) == IF l \in Peers(n) THEN {l} ELSE Peers(n)

UnderWay == UNION {ToSet(mailWire[w]) : w \in Wires}
InFlight(c) == \E m \in UnderWay : m.kind \in {"challenge", "proof"} /\ m.id = c

-----------------------------------------------------------------------------
(* Sending and keeping the mail *)

SendMail ==
  /\ ~sent
  /\ sent' = TRUE /\ holds' = holds \cup {Origin}
  /\ mailWire' = [w \in Wires |-> IF w[1] = Origin /\ w[2] \in Peers(Origin)
                                  THEN Append(mailWire[w], [kind |-> "store"])
                                  ELSE mailWire[w]]
  /\ UNCHANGED <<receipts, open, linked, bonded, keyed, mailLosses>>

\* delete_distributed_mail, by hand or after an import with prune_imported.
DeleteMail(n) ==
  /\ n \in holds /\ mailLosses < MaxMailLoss
  /\ holds' = holds \ {n} /\ mailLosses' = mailLosses + 1
  /\ receipts' = [receipts EXCEPT ![n] = << >>]
  /\ UNCHANGED <<sent, open, linked, mailWire, bonded, keyed>>

\* store_distributed_mail_record drops the oldest records of a full store.
EvictMail(n) ==
  /\ n \in holds /\ mailLosses < MaxMailLoss
  /\ holds' = holds \ {n} /\ mailLosses' = mailLosses + 1
  /\ UNCHANGED <<sent, receipts, open, linked, mailWire, bonded, keyed>>

\* prune_distributed_mail_store drops the receipts without a record.
PruneMail(n) ==
  /\ n \notin holds /\ receipts[n] # << >>
  /\ receipts' = [receipts EXCEPT ![n] = << >>]
  /\ UNCHANGED <<sent, holds, open, linked, mailWire, bonded, keyed, mailLosses>>

-----------------------------------------------------------------------------
(* Challenges *)

\* maybe_issue_mail_storage_challenge: what it slashes among the receipts rs,
\* and whom it challenges; due has the labels whose interval is over.
Untrusted(rs, l) == ~rs[l].slashed /\ ~SignatureValid(rs[l], l)
ToChallenge(rs, due, l) ==
  /\ ~rs[l].slashed /\ SignatureValid(rs[l], l) /\ BondSatisfied(rs[l])
  /\ rs[l].challenged => l \in due

Unused(n, l) == {no \in 1..MaxOpen : LET c == [by |-> n, of |-> l, no |-> no]
                                     IN c \notin open /\ ~InFlight(c)}
NewChallenge(n, l) == [by |-> n, of |-> l, no |-> CHOOSE no \in Unused(n, l) : TRUE]

\* n checks its receipts rs for the labels these, challenges some, and blames
\* the labels of blamed as well; still are the challenges that stay open, wire is
\* what is under way by now.
IssueChallenges(n, rs, these, due, still, wire) ==
  LET bad == {l \in these : Untrusted(rs, l)}
      ask == {l \in these : ToChallenge(rs, due, l)}
      new == {NewChallenge(n, l) : l \in ask}
      For(m) == {[kind |-> "challenge", id |-> c] :
                   c \in {d \in new : m \in MailTargets(n, d.of)}}
  IN /\ \A l \in ask : Unused(n, l) # {}
     /\ receipts' = [receipts EXCEPT ![n] =
          [l \in DOMAIN rs |-> IF l \in bad THEN Slashed(rs[l])
                              ELSE IF l \in ask THEN [rs[l] EXCEPT !.challenged = TRUE]
                              ELSE rs[l]]]
     /\ open' = still \cup new
     /\ mailWire' = [w \in Wires |->
          IF w[1] = n THEN wire[w] \o SetToSeq(For(w[2])) ELSE wire[w]]

\* maintain_mail_storage_proofs, every 30 seconds, in which all that was under way
\* to and from n has arrived; the challenges of expired are two intervals old.
Quiet(n) == \A w \in Wires : n \in {w[1], w[2]} => mailWire[w] = << >>
MaintainMail(n) ==
  /\ Quiet(n)
  /\ \E expired \in SUBSET {c \in open : c.by = n} :
       LET rows == receipts[n]
           late == {c.of : c \in expired} \cap DOMAIN rows
           rs == [l \in DOMAIN rows |-> IF l \in late THEN Slashed(rows[l]) ELSE rows[l]]
       IN \E due \in SUBSET {l \in DOMAIN rs : rs[l].challenged} :
            /\ IssueChallenges(n, rs, DOMAIN rs, due, open \ expired, mailWire)
            /\ UNCHANGED <<sent, holds, linked, bonded, keyed, mailLosses>>

-----------------------------------------------------------------------------
(* The handlers of the node b for a message of the node a *)

Arriving(a, b, kind) == mailWire[<<a, b>>] # << >> /\ mailWire[<<a, b>>][1].kind = kind
Taken(a, b) == [mailWire EXCEPT ![<<a, b>>] = Tail(@)]
Reply(a, b, m) == [Taken(a, b) EXCEPT ![<<b, a>>] = Append(@, m)]

\* DHT_MAIL_STORE: keep the record, sign a receipt, keep and return it.
ReceiveStore(a, b) ==
  /\ Arriving(a, b, "store")
  /\ LET l == OwnLabel(b, a)
         r == [signer |-> b, signed |-> b \in keyed, signedFor |-> l,
               challenged |-> FALSE, verified |-> FALSE, slashed |-> FALSE]
     IN /\ holds' = holds \cup {b}
        /\ Upsert(b, l, r)
        /\ mailWire' = Reply(a, b, [kind |-> "receipt", label |-> l, receipt |-> r])
  /\ UNCHANGED <<sent, open, linked, bonded, keyed, mailLosses>>

\* DHT_MAIL_RECEIPT: slash a receipt that is not signed, else challenge it.
ReceiveReceipt(a, b) ==
  /\ Arriving(a, b, "receipt")
  /\ LET m == mailWire[<<a, b>>][1]
         rs == WithRow(receipts[b], m.label, m.receipt)
     IN IF SignatureValid(m.receipt, m.label)
        THEN IssueChallenges(b, rs, {m.label}, {}, open, Taken(a, b))
        ELSE /\ Upsert(b, m.label, Slashed(m.receipt))
             /\ mailWire' = Taken(a, b)
             /\ UNCHANGED open
  /\ UNCHANGED <<sent, holds, linked, bonded, keyed, mailLosses>>

\* DHT_MAIL_CHALLENGE: only a holder answers, whoever was meant.  Challenges are
\* not forwarded, so the requester is the peer itself.
ReceiveChallenge(a, b) ==
  /\ Arriving(a, b, "challenge")
  /\ IF b \in holds
     THEN mailWire' = Reply(a, b, [kind |-> "proof", label |-> OwnLabel(b, a),
                                       id |-> mailWire[<<a, b>>][1].id])
     ELSE mailWire' = Taken(a, b)
  /\ UNCHANGED <<sent, holds, receipts, open, linked, bonded, keyed, mailLosses>>

\* DHT_MAIL_PROOF: the receipt takes the label of the proof, and its signature
\* has to fit that label.  The rows of a mail are sorted by label; in which order
\* the two labels come is left open.
ReceiptLabel(l, m) == l     \* the mutant: the receipt keeps its own label
ProvenLabel(l, m) == m.label
ReceiveProof(a, b) ==
  /\ Arriving(a, b, "proof")
  /\ LET m == mailWire[<<a, b>>][1]
         found == {m.id.of, m.label} \cap DOMAIN receipts[b]
     IN IF m.id \notin open \/ b \notin holds \/ found = {}
        THEN UNCHANGED receipts
        ELSE \E l \in found :
          LET r == receipts[b][l]
              to == ProvenLabel(l, m)
          IN IF SignatureValid(r, to) /\ BondSatisfied(r)
             THEN Upsert(b, to, [r EXCEPT !.verified = TRUE, !.challenged = TRUE])
             ELSE Upsert(b, to, Slashed(r))
  /\ open' = open \ {mailWire[<<a, b>>][1].id}
  /\ mailWire' = Taken(a, b)
  /\ UNCHANGED <<sent, holds, linked, bonded, keyed, mailLosses>>

-----------------------------------------------------------------------------
(* The outside world *)

LoseLink(pair) ==
  /\ pair \in linked /\ mailLosses < MaxMailLoss
  /\ linked' = linked \ {pair} /\ mailLosses' = mailLosses + 1
  /\ mailWire' = [w \in Wires |-> IF {w[1], w[2]} = pair THEN << >> ELSE mailWire[w]]
  /\ UNCHANGED <<sent, holds, receipts, open, bonded, keyed>>

\* The connect in send_to_or_relay_mail_peer, an introduction, or the timer.
Relink(pair) ==
  /\ pair \notin linked
  /\ linked' = linked \cup {pair}
  /\ UNCHANGED <<sent, holds, receipts, open, mailWire, bonded, keyed, mailLosses>>

\* The provider spends what its address holds.
SpendBond(n) ==
  /\ n \in bonded /\ mailLosses < MaxMailLoss
  /\ bonded' = bonded \ {n} /\ mailLosses' = mailLosses + 1
  /\ UNCHANGED <<sent, holds, receipts, open, linked, mailWire, keyed>>

\* set_chat_wallet({}) when the wallet session ends.
DropWallet(n) ==
  /\ n \in keyed /\ mailLosses < MaxMailLoss
  /\ keyed' = keyed \ {n} /\ mailLosses' = mailLosses + 1
  /\ UNCHANGED <<sent, holds, receipts, open, linked, mailWire, bonded>>

-----------------------------------------------------------------------------
MailInit ==
  /\ sent = FALSE /\ holds = {}
  /\ receipts = [n \in MailNode |-> << >>]
  /\ open = {} /\ linked = Link
  /\ mailWire = [w \in Wires |-> << >>]
  /\ bonded = MailNode /\ keyed = MailNode
  /\ mailLosses = 0

MailNext ==
  \/ SendMail
  \/ \E n \in MailNode : \/ DeleteMail(n) \/ EvictMail(n) \/ PruneMail(n)
                         \/ MaintainMail(n) \/ SpendBond(n) \/ DropWallet(n)
  \/ \E w \in Wires : \/ ReceiveStore(w[1], w[2]) \/ ReceiveReceipt(w[1], w[2])
                      \/ ReceiveChallenge(w[1], w[2]) \/ ReceiveProof(w[1], w[2])
  \/ \E pair \in Link : LoseLink(pair) \/ Relink(pair)

MailSpec == MailInit /\ [][MailNext]_mailVars

-----------------------------------------------------------------------------
(* Properties *)

MailTypeOK ==
  /\ sent \in BOOLEAN /\ holds \subseteq MailNode /\ bonded \cup keyed \subseteq MailNode
  /\ \A n \in MailNode : /\ DOMAIN receipts[n] \subseteq MailNode
                       /\ \A l \in DOMAIN receipts[n] : receipts[n][l] \in Receipt
  /\ open \subseteq Challenge /\ linked \subseteq Link

VerifiedAs(rows, n, l) == l \in DOMAIN rows[n] /\ rows[n][l].verified
\* A receipt of another node counts as verified only by a proof that the node it
\* names gave itself, even where its challenge went to other holders because the
\* session to it was gone (send_to_or_relay_mail_peer), and they answered.  Among
\* nodes that run this program: the label in a proof is its sender's choice.
VerifiedByReplica ==
  [][\A n \in MailNode : \A l \in Advertised \ {n} :
       (VerifiedAs(receipts', n, l) /\ ~VerifiedAs(receipts, n, l))
         => Arriving(l, n, "proof")]_mailVars

\* "slashing on failed proof" (docs/communication-systems.md:439): while all nodes
\* keep their wallet, the mail and their sessions, no receipt is slashed.
SlashedOnlyOnFailure ==
  mailLosses = 0 =>
    \A n \in MailNode : \A l \in DOMAIN receipts[n] : ~receipts[n][l].slashed
=============================================================================
