-------------------------- MODULE CredentialCustody --------------------------
(***************************************************************************)
(* What a PAT rotation promises, with no journal, no lock and no files: who *)
(* may hold which PAT, which PATs are accepted, and which one is installed. *)
(* CredentialRotation implements it.                                        *)
(***************************************************************************)
CONSTANTS Token, None

VARIABLES
  installed,  \* the PAT the broker uses, or None while it fails closed
  held,       \* PATs whose raw value is in the protected store
  minted,     \* PAT names ever asked of Gitea
  accepted    \* PATs Gitea accepts

custody == <<installed, held, minted, accepted>>

Init ==
  /\ installed \in Token
  /\ held = {installed}
  /\ minted = {installed}
  /\ accepted = {installed}

\* The broker stops being served before anything happens to its PAT.
TakeOut ==
  /\ installed # None
  /\ installed' = None
  /\ UNCHANGED <<held, minted, accepted>>

\* A PAT is asked for once; the answer may be lost, committed or not.
Mint(t) ==
  /\ installed = None
  /\ t \notin minted
  /\ minted' = minted \cup {t}
  /\ accepted' \in {accepted, accepted \cup {t}}
  /\ UNCHANGED <<installed, held>>

Keep(t) ==
  /\ installed = None
  /\ t \in accepted
  /\ held' = held \cup {t}
  /\ UNCHANGED <<installed, minted, accepted>>

\* A PAT is revoked only while another accepted one is in the store.
Revoke(t) ==
  /\ installed = None
  /\ t \in accepted
  /\ (held \cap accepted) \ {t} # {}
  /\ accepted' = accepted \ {t}
  /\ UNCHANGED <<installed, held, minted>>

\* Only the last accepted PAT is installed.
Install(t) ==
  /\ installed = None
  /\ t \in held
  /\ accepted = {t}
  /\ installed' = t
  /\ UNCHANGED <<held, minted, accepted>>

\* Raw values of revoked PATs may be dropped.
Forget ==
  /\ \E kept \in SUBSET held : held \cap accepted \subseteq kept /\ held' = kept
  /\ UNCHANGED <<installed, minted, accepted>>

Next ==
  \/ TakeOut \/ Forget
  \/ \E t \in Token : Mint(t) \/ Keep(t) \/ Revoke(t) \/ Install(t)

Spec == Init /\ [][Next]_custody
===============================================================================
