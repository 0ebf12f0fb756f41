------------------------------ MODULE WalletFile ------------------------------
(***************************************************************************)
(* The wallet file and its copies on disk (src/src/wallet.cpp).  Every     *)
(* change of a wallet (add_address, import_private_key_hex, set_label,     *)
(* ensure_unused_pool, rescan, ...) loads the file, changes the wallet in  *)
(* memory and writes the whole of it with persist, step by step and with   *)
(* no lock: each RPC connection runs on a thread of its own.               *)
(*                                                                         *)
(* stored maps the three names to what they hold: a set of keys, Empty     *)
(* between truncation and write, or NoFile.  A writer that has a file open *)
(* follows it through renames, so open[w] is the name it is now under.     *)
(***************************************************************************)
EXTENDS Naturals, FiniteSets, TLC

CONSTANTS
  Writer,         \* the threads that change the wallet
  WalletKey,      \* the keys they may add
  MaxWalletCrashes\* bound: how often the process dies

ASSUME WalletAssumption == MaxWalletCrashes \in Nat

VARIABLES stored, writers, acked, deaths, overlapped
walletVars == <<stored, writers, acked, deaths, overlapped>>

FileName == {"wallet", "bak", "tmp"}
NoFile == [is |-> "absent", keys |-> {}]
Empty == [is |-> "empty", keys |-> {}]
Whole(K) == [is |-> "whole", keys |-> K]
AtRest == [step |-> "rest", key |-> "none", keys |-> {}, open |-> "none", moved |-> FALSE]

Exists(n) == stored[n] # NoFile
Usable(n) == stored[n].is = "whole"
\* load: the wallet file, or else its backup; what it gives right now.
Loadable ==
  IF Usable("wallet") THEN stored["wallet"]
  ELSE IF Usable("bak") THEN stored["bak"] ELSE NoFile

\* A rename moves the content and whoever has the file open.
Moved(from, to) == [stored EXCEPT ![to] = stored[from], ![from] = NoFile]
Followed(from, to) ==
  [w \in Writer |-> IF writers[w].open = from THEN [writers[w] EXCEPT !.open = to]
                    ELSE IF writers[w].open = to THEN [writers[w] EXCEPT !.open = "none"]
                    ELSE writers[w]]
Goes(ws, w, step) == writers' = [ws EXCEPT ![w].step = step]
Throws(ws, w) == writers' = [ws EXCEPT ![w] = AtRest]

NobodyWrites == \A w \in Writer : writers[w] = AtRest
\* Nothing keeps a second thread out; the property needs to know.
NoteOverlap == overlapped' = (overlapped \/ ~NobodyWrites)

BeginChange(w, k) ==
  /\ writers[w].step = "rest"
  /\ \A v \in Writer : writers[v].key # k
  /\ NoteOverlap
  /\ writers' = [writers EXCEPT ![w] = [AtRest EXCEPT !.step = "load", !.key = k]]
  /\ UNCHANGED <<stored, acked, deaths>>

\* The wallet file is tried first ...
LoadMain(w) ==
  /\ writers[w].step = "load"
  /\ IF Usable("wallet")
     THEN writers' = [writers EXCEPT ![w].step = "open",
                                     ![w].keys = stored["wallet"].keys \cup {writers[w].key}]
     ELSE Goes(writers, w, "loadbak")
  /\ UNCHANGED <<stored, acked, deaths, overlapped>>

\* ... then the backup; with neither, load throws.
LoadBackup(w) ==
  /\ writers[w].step = "loadbak"
  /\ IF Usable("bak")
     THEN writers' = [writers EXCEPT ![w].step = "open",
                                     ![w].keys = stored["bak"].keys \cup {writers[w].key}]
     ELSE Throws(writers, w)
  /\ UNCHANGED <<stored, acked, deaths, overlapped>>

\* The temporary file is opened with trunc ...
OpenTemp(w) ==
  /\ writers[w].step = "open"
  /\ stored' = [stored EXCEPT !["tmp"] = Empty]
  /\ writers' = [writers EXCEPT ![w].step = "write", ![w].open = "tmp"]
  /\ UNCHANGED <<acked, deaths, overlapped>>

\* ... written, flushed and closed.  A flush or close that fails goes unnoticed in
\* the code, and is left out here.
WriteTemp(w) ==
  /\ writers[w].step = "write"
  /\ stored' = IF writers[w].open = "none" THEN stored
              ELSE [stored EXCEPT ![writers[w].open] = Whole(writers[w].keys)]
  /\ writers' = [writers EXCEPT ![w].step = "unlink", ![w].open = "none"]
  /\ UNCHANGED <<acked, deaths, overlapped>>

RemoveBackup(w) ==
  /\ writers[w].step = "unlink"
  /\ stored' = [stored EXCEPT !["bak"] = NoFile]
  /\ writers' = [v \in Writer |->
                   IF v = w THEN [writers[w] EXCEPT !.step = "rotate"]
                   ELSE IF writers[v].open = "bak" THEN [writers[v] EXCEPT !.open = "none"]
                   ELSE writers[v]]
  /\ UNCHANGED <<acked, deaths, overlapped>>

\* The mutant: the old file is removed where it should become the backup.
RotateRemoving(w) ==
  /\ writers[w].step = "rotate"
  /\ stored' = [stored EXCEPT !["wallet"] = NoFile]
  /\ Goes(writers, w, "replace")
  /\ UNCHANGED <<acked, deaths, overlapped>>

Rotate(w) ==
  /\ writers[w].step = "rotate"
  /\ IF Exists("wallet")
     THEN /\ stored' = Moved("wallet", "bak")
          /\ writers' = [Followed("wallet", "bak") EXCEPT ![w].step = "replace",
                                                          ![w].moved = TRUE]
     ELSE stored' = stored /\ Goes(writers, w, "replace")
  /\ UNCHANGED <<acked, deaths, overlapped>>

\* The new file goes into place and the caller gets its answer; where the
\* rename fails the backup is put back and persist throws.
Replace(w) ==
  /\ writers[w].step = "replace"
  /\ IF Exists("tmp")
     THEN /\ stored' = Moved("tmp", "wallet")
          /\ Throws(Followed("tmp", "wallet"), w)
          /\ acked' = acked \cup {writers[w].key}
     ELSE /\ UNCHANGED acked
          /\ IF writers[w].moved /\ Exists("bak")
             THEN /\ stored' = Moved("bak", "wallet")
                  /\ Throws(Followed("bak", "wallet"), w)
             ELSE stored' = stored /\ Throws(writers, w)
  /\ UNCHANGED <<deaths, overlapped>>

\* recover copies the backup over the wallet file, which is empty meanwhile.
\* The caller asked for the older keys.
BeginRecover(w) ==
  /\ writers[w].step = "rest" /\ Usable("bak")
  /\ stored' = [stored EXCEPT !["wallet"] = Empty]
  /\ writers' = [writers EXCEPT ![w].step = "copy", ![w].keys = stored["bak"].keys,
                                ![w].open = "wallet"]
  /\ acked' = acked \cap stored["bak"].keys
  /\ NoteOverlap
  /\ UNCHANGED deaths

EndRecover(w) ==
  /\ writers[w].step = "copy"
  /\ stored' = IF writers[w].open = "none" THEN stored
              ELSE [stored EXCEPT ![writers[w].open] = Whole(writers[w].keys)]
  /\ Throws(writers, w)
  /\ UNCHANGED <<acked, deaths, overlapped>>

\* The process dies: what was written stays, what was under way is gone.
WalletCrash ==
  /\ deaths < MaxWalletCrashes
  /\ \E w \in Writer : writers[w] # AtRest
  /\ deaths' = deaths + 1
  /\ writers' = [w \in Writer |-> AtRest]
  /\ UNCHANGED <<stored, acked, overlapped>>

WalletInit ==
  /\ stored = [n \in FileName |-> IF n = "wallet" THEN Whole({}) ELSE NoFile]
  /\ writers = [w \in Writer |-> AtRest]
  /\ acked = {}
  /\ deaths = 0
  /\ overlapped = FALSE

WalletNext ==
  \/ \E w \in Writer, k \in WalletKey : BeginChange(w, k)
  \/ \E w \in Writer :
       \/ LoadMain(w) \/ LoadBackup(w)
       \/ OpenTemp(w) \/ WriteTemp(w)
       \/ RemoveBackup(w) \/ Rotate(w) \/ Replace(w)
       \/ BeginRecover(w) \/ EndRecover(w)
  \/ WalletCrash

WalletSpec == WalletInit /\ [][WalletNext]_walletVars

-----------------------------------------------------------------------------
(* Properties *)

\* Whatever step of persist or recover the process first dies in, the next load
\* finds every key whose change was acknowledged, in the file or in its backup,
\* and so it does after the restart: an address that was handed out does not
\* lose its private key.  Both conditions are needed.  Two changes that overlap
\* lose the key of one, and a second crash may lose the wallet: once load has
\* fallen back to the backup, the next persist removes that backup before it
\* has a wallet file.
AckedKeysLoadable ==
  ~overlapped /\ (deaths = 0 \/ (NobodyWrites /\ deaths = 1)) =>
    Loadable # NoFile /\ acked \subseteq Loadable.keys

\* The files and threads are in a state persist and recover pass through; a
\* thread has a file open only between its opening and its writing.
WalletTypeOK ==
  /\ stored \in [FileName -> {NoFile, Empty} \cup {Whole(K) : K \in SUBSET WalletKey}]
  /\ \A w \in Writer : /\ writers[w].keys \subseteq WalletKey
                       /\ writers[w].open \in FileName \cup {"none"}
                       /\ writers[w].open # "none" => writers[w].step \in {"write", "copy"}
  /\ acked \subseteq WalletKey
=============================================================================
