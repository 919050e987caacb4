# AIGitea in TLA+

Formal models of the programs in this repository that change shared state: the
Mac-side host access broker and its helpers, the operator transactions on Gitea
credentials and on repository governance, the label operations on Issues, the
GitHub to Gitea sync, the start of tickets and the installation of skills. The
repository is mostly text for people and coding agents; the programs under
`codex/runtime`, `codex/tools` and `sync` are what can go wrong in ways a test
rarely sees, and they are what is modelled.

Contents: [1 the system](#1-the-system), [2 hard behaviours](#2-what-is-hard-here),
[3 modules](#3-modules-and-the-code), [4 runs](#4-what-the-runs-show),
[5 proofs](#5-what-is-proved), [6 findings](#6-findings-and-known-weaknesses),
[7 limits and plan](#7-what-is-not-modelled-and-the-plan).

## 1 The system

| Component | Source | State it keeps | Operations | Talks to |
| --- | --- | --- | --- | --- |
| PAT rotation | `aisoft_host_access/credential_rotation.py`, `gitea-pat-helper` | `journal.json`, canonical token, `old.token`, `candidate.token`, archives, provenance, a flock | `run`, `advance`, `compensate` | Gitea's access-token table through a VM endpoint; every broker run reads the canonical token without the lock |
| Change publication | `broker.py` `_git`, `aisoft_worktree_owner.py`, `aisoft_main_integration.py` | the worktree's ownership marker (owner, ledger, R0) | `git.push.change`, `claim`, `authorize_push`, `record_push`, `pin_original_remote` | the Gitea remote (main and one change ref), the local HEAD, other hosts |
| Issue labels | `broker.py` label operations, `aisoft_loop/gitea.py`, `mark-completed-issues.sh`, `mark-deployed-issues.sh` | none of its own: the label set of a Gitea Issue | set lifecycle / classification / review / execution; reconcile; mark deployed; mark completed | the Gitea label API (whole-set PUT) |
| Inbound sync | `sync/inbound-sync.sh` | last-successful SHA, pending file, lock | one timer-driven pass | GitHub (read), Gitea main, `sync/*` branches, pull requests |
| Broker, other operations | `broker.py` | none | complete reads of pull requests; plain reads, pull requests, settings | Gitea API |
| Governance | `aisoft_gitea_governance/` | snapshot files in evidence directories | bootstrap-manager, apply, retire-shared-bot, rollback, check | Gitea repository settings, collaborators and branch protection |
| Loop controller | `aisoft_loop/` | Change documents, worktrees, review candidates | classify, create, audit, analyse, review | Gitea Issues, the repository |
| Ticket execution | `aisoft_loop/ticket_execution.py` | start receipts, derived plans and registered scratch directories in the ignored cache of a worktree | prepare, resume; judges completion | plan, spec and evidence documents, the branch, the ownership marker |
| Matt skill snapshot | `aisoft_loop/matt_snapshot.py` | releases, entry links, the pointers current and previous | prepare, install, rollback | `~/.agents` of the user |
| Platform bootstrap | `aisoft_platform_bootstrap/` | none | adoption plan, requests, readback | broker operations |
| Architecture profiles | `aisoft_architecture/` | none | validate documents | - |
| Operator tools, installers | `codex/tools`, `codex/install-*.sh` | local files | clean up merged worktrees, bootstrap accounts, poll alerts, install | the local host |

How they meet. An agent session owns a *worktree* through a marker file and may
only publish through the broker. The broker reads a *token* that the rotation
transaction replaces. Pushed branches become pull requests; after a merge the
deployment tools move the *lifecycle label* of the Issue, which the broker and
the loop also write. `main` moves underneath all of it: merges on Gitea, and the
inbound sync that proposes GitHub's commits.

What makes each component correct:

- *Rotation*: an installed PAT is the only one accepted; the store never loses
  its last accepted PAT; no live PAT is forgotten; no PAT is issued twice; a
  receipt is honest; the journal is never replaced unarchived; a rotation
  settles.
- *Publication*: a push never drops somebody's commit; only verified commits are
  sent; what the ledger and the receipt say is true; a push settles.
- *Labels*: an Issue has one label of a dimension; a writer changes only its own
  dimension; a completed Issue is not moved back.
- *Inbound sync*: history is never rewritten in Gitea; at most one sync pull
  request is open; what is recorded as synchronised was offered; GitHub's head
  ends up offered.
- *Governance*: apply converges from wherever an earlier one stopped; receipts
  are true; the state before a write is on disk and belongs to that run alone;
  what nobody reviewed is not overwritten; rollback returns to the snapshot.
- *Complete reads*: an answer is the collection at one moment, and what stood
  still is refused only for its size.
- *Skill snapshot*: an install is done or undone; at every moment, also after a
  kill, the skills two releases share resolve; only entries of the user, which are
  kept, and links of a command that was cut short stand in the way.
- *Tickets*: a ticket starts only after what blocks it; what was started can be
  resumed; what was completed stays completed, for a successor too.

## 2 What is hard here

Every durable step of the rotation may be the last one of its process, Gitea may
commit what it never answered, and broker runs read the token file without the
lock. A push reads main, the ref, HEAD and the marker at six different moments,
none of them under a lock, and the marker is replaced by read-then-write from
three code paths. Label operations replace the whole label set from an earlier
read. The sync writes its last SHA after two remote effects. Governance reads
in three calls, decides, and writes in up to four, while people use the web
interface. A skill release is a dozen links of which each is replaced
atomically and all of them are not. Pages of a list are read one after another
while its entries move. A ticket starts from documents and a branch that are
read at different moments, and leaves five files behind. `PROJECT.json`
lists each of these hazards at its line with the property that would catch it.

## 3 Modules and the code

| Module | What it is |
| --- | --- |
| `CredentialRotation` | `RotationTransaction`: one action per durable effect of `run`, `advance` and `compensate` |
| `CredentialCustody` | abstract specification of what a rotation promises about the PAT |
| `CredentialRotationInv`, `CredentialRotation_proofs` | its inductive invariant, its theorems |
| `ChangeHistory` | `verify_history`: which commit graphs it accepts |
| `ChangePush`, `ChangePush_proofs` | `git.push.change` with `claim`, the ownership marker, the push guard and the remote |
| `InboundSync`, `InboundSync_proofs` | `sync/inbound-sync.sh` |
| `IssueLabels`, `IssueLabels_proofs` | every writer of the labels of one Issue |
| `GovernanceApply`, `GovernanceApply_proofs` | the four transactions of `reconcile.py` on one repository |
| `CompleteReads`, `CompleteReads_proofs` | `_complete_pulls`, the two-scan read of the broker |
| `SkillInstall`, `SkillInstall_proofs` | `prepare_install` and `install_snapshot` |
| `TicketExecution`, `TicketExecution_proofs` | `prepare_ticket`, `completed`, `scope_matches` |
| `MC*` | instances for TLC: a small commit graph, label sets, symmetry |

`PROJECT.json` maps each definition to the lines it stands for. What follows is
the correspondence a reader needs first.

**CredentialRotation.** A variable per durable object: `journal`, `canonical`
(the installed token file), `oldFile`, `candidateFile`, `archive`, `provenance`,
and `live` for the PATs Gitea accepts. `lock` is the flock. A process has a
program point `pc` and the run it belongs to; everything it keeps in memory
comes from the journal, and a crash is losing the program point and the flock.
An action ends at each durable effect, so a crash can fall between any two. The
VM endpoint is a separate actor: an operation may be refused, may commit without
an answer, or (when `Prompt` is false) may commit after its run gave up. Token
values, modes and digests are abstracted to identities of PATs.

**ChangePush.** `marker` is the worktree's JSON marker (owner, ledger of pushed
heads, original remote R0), `tip` the change ref on Gitea, `main` the ref
everyone integrates, `head` the local HEAD. A push is the sequence of its reads
and writes; between any two of them another host may push, main may move, a
session may claim, the marker may be damaged, or the process may die. Commits
are members of a given graph with the sets of commits they contain, so "fast
forward" is set inclusion.

**ChangeHistory.** `HistoryHolds` is `verify_history` on that graph: the anchors,
the walk along first parents as far as `main` does not reach (`Walk`, `Chain`),
the rule for an ordinary commit with the scope of the spec at the head and the
older scope below `git_history_head` (`InScope`, `Permitted`), the rule for an
integration of main (`Integration`), and the comparison of the walk with
`rev-list`. `Vetted` is the reference definition, which does not walk: it speaks
of every commit that main lacks. Which paths a commit touches, whether its tree
is that of the merge, and what `scope()` reads in it are given with the graph.

**InboundSync.** `last` and `pending` are the two state files, `branch`, `open`
and `main` are Gitea's side, `github` is GitHub main. One action per remote
effect, state file or check; a run that fails keeps what it has written. With
`flock` false the lock is a directory, which a killed run leaves behind. A
run sees one page of open pull requests: `Page` lets Gitea choose which ones
when there are more.

**IssueLabels.** All writers have one shape, so they share `Read` and `Put`: a
request remembers the labels that were read, the labels it owns and what it puts
in their place; `Put` writes `(read \ owned) \cup targets`, over whatever the
Issue carries then. The broker's guards (`Denied`, no write when nothing
changes) are conditions of the read step, as in the code. The loop's
`apply-analysis` reads twice, once to route and once to write. The deployment
hook owns the lifecycle dimension and has no guard. Label ids, definitions and
the text of the documents are left out.

**GovernanceApply.** `repo` is the repository in Gitea: visibility and branch
deletion, the protection of main as its status-check fields, its approvals and
the rest the manifest fixes, and the permissions of the manager, the project
agent and the shared bot. `evidence` holds the pre and post snapshot of each
directory and command. All four commands are one shape (read in three GETs,
decide, save, write calls in order, read again, judge, save) and share the
actions `Read` to `SavePost`; what distinguishes them is in `Accepts`, `Script`,
`Written`, `Goal` and `ReadBackOk`. `Accepted` is Gitea: no call without
authority, no POST over a protection, no PATCH or DELETE of none. `calm` is an
observation: since the run began nothing of its own failed and nobody else
changed the repository.

**CompleteReads.** One read, from the first page to the answer. `pulls` is the
collection in Gitea, `got` what this scan has collected, `mark` the collection
when the first scan ended. Between two pages anybody may open, close or edit a
pull request, which moves entries to other pages. A pull request's contents are
its version. That stands for the bytes the code compares, under one assumption:
every change alters them. Gitea's `updated_at` counts seconds, so a pull request
that is changed twice within one second, back to what it was, can look as if it
had not moved; the model leaves that window out. `cap` is the page size of
the server, which may be below the `limit` the code asks for
(`test_host_access_complete_reads.py:78`).

**SkillInstall.** `link` maps every slot (one per skill, then `previous`, then
`current`, in the order of replacement) to what is there. A skill's slot holds
the path its link names *through* `current`, so replacing `current` last moves
all of them at once; that is why `Usable` asks about skills with an unmoved path.
`Stage`, `Recheck`, one `Replace` per slot, `Undo` in reverse order; `Fail` is
an exception, `Interrupt` a kill or an exception while undoing. The user's
entries are a `File`, a `Directory` or a symbolic link (`Other`), because the
code treats them differently: `os.readlink` notes the target of the link and
nothing of the others (`Before`), and on a directory `os.replace` and `unlink`
raise. That ends the replacement (`ReplaceRaises`), with the slot already in
`undo`, and then the undo (`UndoRaises`). `stray` is an observation: the entries
that a command which ended in `cut` had replaced and did not put back.

**TicketExecution.** `receipt`, `scratch` and `derived` are the files a
preparation leaves, one write each (`Register` three times, `Derive`, `Save`);
`Cut` kills a preparation before or in the middle of a write. `branch` and
`head` are the worktree's Git, `record` and `done` what the documents say.
`Completed` is computed anew, as in the code, from the documents, the receipt
that is left and the branch. Sessions commit, reset, complete, replan, amend
scope and take over at any moment.

The components meet through the token and through `main`: that is stated
between `CredentialRotation` and its abstract specification, and in the events
of the other modules. Their states are disjoint, so they are not composed.

## 4 What the runs show

| Run | Checks | Shows |
| --- | --- | --- |
| `rotation_safety` | `TypeOK`, `SoleLivePat`, `NeverLockedOut`, `NoForgottenPat`, `IssuedOnce`, `HonestReceipt`, `ArchivedBeforeReplaced`, `ImplementsCustody`, `RotationSettles` | custody of the PAT over crashes, lost answers and an expiring grant; the rotation implements `CredentialCustody`; it ends, or stops in one of five named states |
| `rotation_late` | `NoOtherPat` | the part of this that survives revocations which commit late |
| `push_safety` | `TypeOK`, `LedgerWasRemote`, `ReceiptTrue`, `OnlyFastForwards` | a push drops nothing and says what is true |
| `push_settles` | `PushSettles` | a branch is published and recorded, or refused for a named reason |
| `sync_safety` | `TypeOK`, `OneSyncPr`, `OfferedExtendsLast`, `SyncSettles` | one sync pull request, no rewrite offered after the last success; GitHub's head ends up merged, offered, pending, or refused for a named reason |
| `labels_safety` | `TypeOK`, `OnePerDimension`, `DemotionNeedsRace`, `TerminalReached` | no interleaving of whole-set writes leaves two labels of a dimension; the demotion guard is bypassed only by a write computed earlier; a merged Issue ends in a terminal label where no deployment is waited for |
| `gov_safety` | `TypeOK`, `ReceiptTrue`, `CalmRunEnds`, `EvidenceFirst`, `ReviewedOnly` | receipts are true and apply converges in one run, also from a half-applied repository; evidence is there before the first write and belongs to one run; unreviewed checks and approvals are not overwritten knowingly |
| `skill_safety` | `TypeOK`, `AllOrNothing`, `Usable`, `OnlyForeignRefused`, `ForeignKept` | installs and rollbacks in any order are done or undone and keep the user's entries; a kill leaves the common skills usable; the next release is refused only for the user's entries and for links a command, cut short, left |
| `reads_safety` | `TypeOK`, `SnapshotRead`, `RefusedForCause` | two equal scans are one moment of a moving collection; a still one is refused only for its size, or where the server's pages are short, for the pages it takes |
| `ticket_safety` | `TypeOK`, `StartAfterBlockers`, `ReceiptResumable`, `CompletionSurvives` | tickets start after what blocks them although HEAD moves; a receipt is enough to resume; completion outlives sessions, cuts and recorded amendments |
| `rotation_saved`, `gov_rollback` | one property each | section 6 |

**Bounds.** *Rotation*: two processes, two authorizations and three PATs allow a
rotation, a second one under another authorization and its archive; a fourth PAT
would add a third rotation, which repeats the second. Three
faults are needed for the longest bad prefix found: a crash during the
compensation of a lost answer, and one in its retry. *Push*: seven commits, which
have the relations that matter (main moved, integrated, integrated with a change
of its own, behind, forked by another host outside of the scope, the same change
under a new approval; the liveness run leaves two of them out), two processes, two sessions, two events of any kind. *Sync*: a
line of three commits and one rewrite of its second; two processes, so that one
may start while another is being killed; three events allow a lost answer, a
GitHub move and a merge in one behaviour, on hosts with and without flock. A
page of two stands for the page of 50. *Labels*: two writers (a race of
whole-set writes needs two), two counted edits, one fault, two current
complexity labels and a retired one, six lifecycle labels, and one label of the
type, triage and extension families, which no guard looks at. *Governance*:
three transactions (a failed apply, its rollback or repetition, and one of the other process), one
evidence directory so that two runs must compete for it, one change by a person,
one fault; the initial repositories are one before bootstrap, one without
protection and one that waits for its first required context. *Reads*: pages of
two and three pages with `MaxCount = Limit * (MaxPages - 1)` as in the code
(4950 = 50 * 99; the module assumes `<=`), and a server that fills them or caps them at one; up to five pull requests so that both bounds are passed, three
changes so that a removal can be compensated by an insertion in each scan.
*Skills*: three releases in which one skill stays, one moves and one comes and
goes; four commands (install, upgrade, rollback, upgrade again), two failures or
kills, one change of an entry by the user beside those of any kind that are there
before the first install. *Tickets*: two tickets, one blocked by the other;
two overlapping preparations of three, two sessions; three commits (one before,
one for each ticket); two events, so that a scope can grow and an owner change;
one cut. All counters (`faults`, `moves`, `writes`, `starts`, `edits`,
`events`, `runs`) stop in the guards, never in a constraint.

**Fairness.** A process that is running goes on (`WF` of `Advance`): the
programs are sequential scripts under an operating system. The operator who
started a rotation runs it again while its authorization stands (`SF` of
`Acquire` for each authorization: the runbook's retry), the owner of a worktree
pushes again (`WF` of `Start`), the systemd timer starts the next sync (`WF`).
`mark-completed` is run after merges by people, again and again (`SF`). A chain
that deploys every merge deploys this one (`SF`), but the hook it runs once is
not repeated: that is what the code does. Faults and events are finite, which the
liveness properties need and no safety property does.

**Deadlock** is checked for the rotation. It is off where the system may really
stop: a push that was refused for good, an Issue nobody touches any more, a
sync host without flock whose lock directory was left behind, and the
governance, skill, read and ticket commands, which end and are not repeated.
None of those four runs by itself again, so no fairness is assumed for them and
no liveness is stated; `CalmRunEnds` and `OnlyForeignRefused` are the safety
forms of "the next command gets through".

## 5 What is proved

Theorems hold for every value of the constants under the named assumptions of
the modules; TLC evaluates the assumptions on its instances.

- **Rotation** (`CredentialRotation_proofs`), for any number of processes,
  authorizations, PATs and faults. The invariant has two parts. `SafeInv` holds
  whatever the VM does, also where an operation commits long after the run that
  asked for it: for each journal phase where the two PATs are (`ShapeInv`), for
  each program point what the process has established (`PointInv`), and what a
  late commit can still do (`LateInv`). From it follow `NoOtherPat`,
  `NoForgottenPat`, `IssuedOnce`, `ArchivedBeforeReplaced`, and three results no
  run states: `ProvenanceFirst`, `ScopesInv` (a candidate past its verification
  has the scopes of its request), and that the journal's phase moves only along
  the edges of the transaction (`PhasesInOrder`). `IInv` adds `SurvivorInv`,
  which PAT works at each point, and needs `Prompt`: no VM operation outlives the
  45 s wait of its caller. From it follow `SoleLivePat`, `NeverLockedOut`,
  `HonestReceipt` and the refinement of `CredentialCustody`.
- **Where a rotation stops**, also under `Prompt`. `RefusedForCause`: a run is
  refused only for a named cause; from every other state, wherever a run died,
  the next check succeeds. `DeadEndsStay`: at one of the five dead ends every run
  of every authorization is refused and no file, record or PAT changes. Together
  they are the safety half of `RotationSettles`: nothing but the five states stops
  a retry, and they do.
- **Publication** (`ChangePush_proofs`), for any scopes and any number of sessions
  and processes, over any commit graph in which containment is the closure of the
  parents, histories are finite and no commit is its own ancestor
  (`HistoryAssumption`: parents are named by hash). `WalkExamines`: the walk of
  `verify_history` along first parents gives the verdict of examining each commit
  of `rev-list` by itself; the comparison that ends it never decides, since a
  merge that hides a side history already fails as an integration. The argument
  takes the oldest commit the walk would miss. `WalkVets`: what it lets pass is
  `Vetted`. Of the push: types, `LedgerWasRemote`, `ReceiptTrue`,
  `OnlyFastForwards`, and `OnlyVerifiedSent`, which is not checked by a run of its
  own. `PushInv` carries what a push has verified from the read to the write: the
  head it sends contains the tip it read, and the server accepts an ordinary push
  only as a fast-forward. `RefusedForReason`: a push gives up only for a reason of
  `PushSettles`, because its transport failed, or because the ref, main, HEAD or
  the marker moved under it. That needs `HeldInv`, everything a push has read and
  that nobody has changed since.
- **Sync** (`InboundSync_proofs`), for any history and number of runs. `SafeInv`:
  only the holder of the lock runs, and what a run has checked still holds when it
  acts, because Gitea main only grows. From it follow `LastOffered` and
  `OfferedExtendsLast`. Under `Uncrowded` (fewer other pull requests than a page
  holds) also `SoleInv`, hence `OneSyncPr`, and `RefusedForReason`: a run ends in
  a refusal only for one of the reasons in `SyncSettles`, or because a main or a
  branch changed after it was read; nothing a killed run left behind makes a later
  one give up.
- **Governance** (`GovernanceApply_proofs`), for any manifest, processes,
  evidence directories and edits by people: `ReceiptTrue`, `EvidenceFirst`,
  `ReviewedOnly`, `CalmRunEnds`, and that no transaction takes Admin from the
  manager (`Manager`). The invariant relates what a run has read to the repository: as
  long as the run is calm, the parts read so far are the parts that are there,
  so a read-back that succeeds speaks of the repository and not of a mixture of
  three moments. Evidence needs only the exclusive link: two runs that write
  after the same file would both have created it. `CalmRunEnds` is about a whole
  run: `PInv` says which calls are left (`Plan`), and that in an undisturbed run
  the parts whose calls are over have their goal and the others are as they were
  read (`Progress`), so every call is accepted and the read-back finds the goal.
  `RollbackGivesUp` names the one case in which an undisturbed rollback is
  refused; section 6 has the run that shows it.
- **Complete reads** (`CompleteReads_proofs`), for any number of pull requests,
  page sizes, bounds and changes: `SnapshotRead` and `RefusedForCause`. Versions only grow. What the
  first scan collected may be old when that scan ends (`NotNewer`), what the
  second collects is not older than that moment (`Second`), so where the two
  agree nothing changed in between and the entry was there, with that version.
  That nothing else was there follows from counting: the first scan ended with
  as many entries as the server announced for its last page, and the
  collections are finite (the library's cardinality theorems). For a collection
  that stands still, the rank of an entry fixes its page: the pages before hold
  the entries up to rank `cap * (page - 1)`, so an empty page means that there is no
  more, and it is reached because the last page stays free: for full pages by
  `MaxCount` (`CountsFit`), for short ones by the collection's size.
- **Skills** (`SkillInstall_proofs`), for any releases and any assignment of
  paths: all four properties. The invariant describes the slots between `start`
  and the plan by the position of `next`: what lies before it is as planned,
  what lies after it as it was, and `undo` restores what was replaced
  (`Progress`; `Noting` for the slot at hand). Between commands every entry is
  absent, the user's, in `stray`, or leads to its skill in the current release
  (`Tidy`), which is what makes the next plan acceptable. Tidiness survives a cut
  because an entry that is not as it was at the check then is in `stray`
  (`CutStep`), and a command that is done takes what it replaced out of it.
- **Tickets** (`TicketExecution_proofs`), for any plan, sessions and processes:
  all three. A branch holds nothing later than its HEAD, and what a preparation
  needs stays on it until HEAD is read or the branch is reset (`NeedsKept`). A
  receipt is written after the files it needs (`FilesKept`), and those are only
  ever added to, or lost in a cut that `torn` remembers. Records are made from
  receipts and receipts are never replaced (`RecordKept`), so no preparation can
  take a completion back.
- **Labels** (`IssueLabels_proofs`), for any label sets, writers and project
  extensions, assuming that the dimensions are disjoint: `OnePerDimension` and
  `DemotionNeedsRace`. `IInv` says that every *pending* request is clean: each
  dimension is either replaced by at most one label or carried across as it was
  read, and it was read clean. So the order in which stale requests land does
  not matter.

Well-founded arguments (the oldest commit the walk would miss) are made through
the least element of a set of naturals, which the library states without an
operator as parameter; its induction theorems take one and cannot be used.

Every safety and action property of the passing runs is the statement of a
theorem. Only model-checked are the four liveness properties (`RotationSettles`,
`PushSettles`, `SyncSettles`, `TerminalReached`), which are out of this prover's
reach: of the first three the proofs have the safety half, that a run is refused
only for a cause which those properties name. The two violations are runs of TLC.

## 6 Findings and known weaknesses

Two are runs that TLC finds violated; `PROJECT.json` quotes the lines.

- `rotation_saved`: a crash while the published candidate is withdrawn leaves a
  journal no retry accepts, though the runbook says the saved candidate goes on.
- `gov_rollback`: when neither the snapshot nor the repository has a protection,
  `rollback` patches the settings and then refuses with "snapshot protection is
  invalid" (`reconcile.py:755`); the collaborators stay as the failed apply left
  them. This is what an apply leaves that fails before it creates the protection
  of an unprotected repository. The handbook (`06-...md:331`) sends the operator
  exactly there.

The modules contain further weaknesses that no run of their own states; the
passing properties are stated around them.

- *Rotation*. A completed request is a no-op only until another one completes:
  the archives are never consulted (`credential_rotation.py:328`). A revocation
  whose result is unknown leaves no trace in the journal, and the retry may
  publish the candidate that is being revoked (line 512).
- *Push*. After a crash in the first push, the session's own commit is taken for
  somebody else's (`broker.py:2693`). A claim that races a push may write back a
  marker without R0.
- *Sync*. With a full page of other pull requests a second sync pull request is
  opened (`inbound-sync.sh:148`); `OneSyncPr` is checked and proved for fewer.
- *Labels*. `completed` can replace `deployed` when the hook's write falls
  between the broker's read and its PUT (`broker.py:2394`). A whole-set PUT
  undoes what others wrote to other dimensions since the read. A classification
  may be written after the merge closed the Issue. Where every merge is promised
  to be deployed, a hook that fails leaves the Issue without a terminal label.
- *Governance*. A person's change of required checks between apply's read and
  its PATCH is overwritten (`ReviewedOnly` says: only then).
- *Complete reads*. Where the server caps its pages below 50, a collection that
  needs more than 99 of them is refused with `READ_SCAN_BOUND` although it is
  below 4950 and does not move (`RefusedForCause` names the case; the tests expect
  it, `test_host_access_complete_reads.py:155`).
- *Skills*. A kill between two links, or a directory of the user's in the way of
  one, leaves entries of the new release beside the old `current`. Every release
  that has one of those skills is then refused as somebody else's entry, after an
  upgrade the old release too, until the links are removed by hand
  (`OnlyForeignRefused` names them). "Ordinary failures restore the exact prior
  links" (`matt_snapshot.py:442`) does not hold for the directory: the undo starts
  with the slot that failed and raises on it again, before any other link is put
  back. A file the user creates at a slot that fails is deleted by the undo. A
  kill between the two pointers makes `previous` equal to `current`, and a
  rollback then changes nothing.
- *Tickets*. A preparation cut between the scratch directory and its two
  registration files leaves a directory every later preparation of this owner
  and plan refuses; one cut between the derived plan and the receipt leaves
  "unregistered derived plan exists"; a receipt of which a part was written
  blocks its ticket, and new tickets whose derived plan exists. None is cleaned
  up by the program. A branch that is reset between the check of the blocking
  tickets and the reading of HEAD starts a ticket on a base without them.

## 7 What is not modelled, and the plan

Left out for good: plain reads and validation of files, arguments and schemas
(no state of their own), classification and route policy, documents, audits and
review candidates of the loop controller (functions of documents; their label
writes are in `IssueLabels`), platform bootstrap plans, architecture profiles,
installers and drift checks, the usage bundle, the alert poller, vendored
skills, templates and documents. These make up most of the lines of the
repository's programs: parsing, comparing and reporting, in one process, on
inputs a test can enumerate.

Inside the modelled components: installation checks of paths and modes
(rotation), `merge_tree`, `scope()` and the template rules (push), how a classification is
computed (labels), the manifest schema, the service policy and the account
checks (governance), hashing and front matter (skills), the plan grammar and the
acceptance entries (tickets).

What could follow:

1. `CleanupMerged` (`aigitea-cleanup-merged.sh`): worktrees and branches removed
   from lists made earlier.
2. The bootstrap of a service account and its first PAT, which the rotation
   takes as its initial state; creation of pull requests by the broker.

Proofs that could follow: an abstract specification of the push ("the ref only
grows, and the ledger follows it") with its refinement, and one of the sync.
