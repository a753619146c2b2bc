----------------------------- MODULE FeedsProofs -----------------------------
(***************************************************************************)
(* Theorems about Feeds for every set of administrators, tokens, clients,  *)
(* jobs, names and contents.                                               *)
(*                                                                         *)
(* A first invariant, Inv, uses the shapes of the rows alone; a second,    *)
(* Aux, counts generations and sequences against the edits, as TypeOK      *)
(* does, and follows what calendar clients have been shown.                *)
(***************************************************************************)
EXTENDS Feeds, TLAPS

Digests == [name : Names \cup {NoName}, content : Contents \cup {Absent},
            seq : Int]

FeedRows == [status : {"active", "paused", "archived"}, archived : BOOLEAN,
             name : Names, gen : Nat, hash : Digests, etag : Digests]

LedgerRows == [known : BOOLEAN, present : BOOLEAN, seq : Nat,
               content : Contents \cup {Absent}]

\* What a renderer keeps.
Locals == [pc : {"idle", "establish", "body", "confirm", "persist", "cache",
                 "recheck", "final"},
           token : Tokens \cup {NoToken}, rep : Digests, gen : Nat,
           etag : Digests, body : Digests, seen : SUBSET Views]

USE DEF FeedRows, LedgerRows, Locals

ManageShape ==
  /\ feed \in FeedRows
  /\ tokens \in [Tokens -> {"none", "active", "revoked"}]
  /\ adm \in [Admins -> [pc : {"idle", "read", "checked"},
                         op : Operations \cup {"none"}]]
  /\ lock \in Admins \cup {NoAdmin}

RenderShape ==
  /\ event \in Contents \cup {Absent}
  /\ ledger \in LedgerRows
  /\ cache \subseteq Digests
  /\ rdr \in [Renderers -> Locals]

Shape == ManageShape /\ RenderShape

(* Whoever has checked the feed for a new token holds its row, and while the   *)
(* row is held nobody archives it.                                             *)
LockInv ==
  \A a \in Admins :
    /\ adm[a].pc = "checked" => lock = a /\ ~feed.archived
    /\ adm[a].pc = "read" => adm[a].op \in Lifecycle \cup {"rename"}

(* What a renderer keeps was the feed's representation at its generation, and  *)
(* its body is the body of that representation.                                *)
Rendering(r) == rdr[r].pc \notin {"idle", "establish"}

RendererInv(r) ==
  /\ Rendering(r) => /\ rdr[r].gen =< feed.gen
                     /\ rdr[r].gen = feed.gen => rdr[r].rep = feed.hash
                     /\ rdr[r].rep # NoRep
  /\ rdr[r].pc = "body" => rdr[r].etag \in {NoRep, rdr[r].rep}
  /\ Rendering(r) /\ rdr[r].pc # "body" => rdr[r].body = rdr[r].rep

RenderInv ==
  /\ EtagIsCurrent
  /\ NoRep \notin cache
  /\ \A r \in Renderers : RendererInv(r)

TokenInv == LockInv /\ ArchivedHasNoToken

Inv == Shape /\ TokenInv /\ RenderInv

-----------------------------------------------------------------------------
(* The representation *)

\* The transaction of establishFeedRepresentation keeps the shape of its rows.
LEMMA EstablishShape ==
  ASSUME Shape, Establish
  PROVE  /\ ledger' \in LedgerRows
         /\ feed' \in FeedRows
         /\ feed'.hash # NoRep
PROOF
<1> USE DEF Shape, ManageShape, RenderShape
<1>0. ledger \in LedgerRows /\ ledger.seq + 1 \in Nat
  OBVIOUS
<1>1. Reconciled \in LedgerRows
  <2>1. [ledger EXCEPT !.present = FALSE, !.seq = @ + 1] \in LedgerRows
    BY <1>0
  <2>2. ASSUME event # Absent
        PROVE  [ledger EXCEPT !.present = TRUE, !.seq = @ + 1,
                              !.content = event] \in LedgerRows
    BY <1>0, <2>2
  <2>3. [known |-> TRUE, present |-> TRUE, seq |-> 0, content |-> event] \in LedgerRows
    OBVIOUS
  <2> HIDE DEF LedgerRows
  <2> QED
    BY <1>0, <2>1, <2>2, <2>3 DEF Reconciled
<1>2. /\ Represented(Reconciled) \in Digests
      /\ Represented(Reconciled).seq # -1
  BY <1>1 DEF Represented, Digests, ManageShape
<1>3. NoRep.seq = -1 /\ NoRep \in Digests
  BY DEF NoRep, Digests
<1> DEFINE rep == Represented(Reconciled)
<1>4. EstablishedFeed \in FeedRows
  <2>1. feed \in FeedRows /\ feed.gen + 1 \in Nat
    OBVIOUS
  <2>2. [feed EXCEPT !.gen = @ + 1, !.hash = rep, !.etag = NoRep] \in FeedRows
    BY <2>1, <1>2, <1>3
  <2> HIDE DEF FeedRows
  <2> QED
    BY <2>1, <2>2 DEF EstablishedFeed, Reset
<1>5. EstablishedFeed.hash = Represented(Reconciled)
  BY DEF EstablishedFeed, Reset
<1> QED
  BY <1>1, <1>2, <1>3, <1>4, <1>5 DEF Establish

\* It leaves the feed as it was, or begins a generation without an etag.  Either
\* way the name stays.
LEMMA EstablishCases ==
  ASSUME Shape, Establish
  PROVE  \/ feed' = feed
         \/ /\ feed'.gen = feed.gen + 1 /\ feed'.etag = NoRep
            /\ feed'.archived = feed.archived /\ feed'.name = feed.name
BY DEF Establish, EstablishedFeed, Reset, Shape, ManageShape

-----------------------------------------------------------------------------
(* The inductive invariant *)

LEMMA InitInv == Init => Inv
PROOF
<1> SUFFICES ASSUME Init PROVE Inv
  OBVIOUS
<1> USE DEF Init
<1>1. NoRep \in Digests
  BY DEF NoRep, Digests
<1>2. ManageShape
  BY <1>1 DEF ManageShape, IdleAdmin
<1>3. RenderShape
  BY <1>1 DEF RenderShape, IdleRenderer
<1>4. TokenInv
  BY DEF TokenInv, LockInv, ArchivedHasNoToken, IdleAdmin
<1>5. RenderInv
  BY DEF RenderInv, EtagIsCurrent, RendererInv, Rendering, IdleRenderer
<1> QED
  BY <1>2, <1>3, <1>4, <1>5 DEF Inv, Shape

(* What administrators do leaves the representation, and what renderers keep,  *)
(* alone.                                                                      *)
LEMMA KeepsRendering ==
  ASSUME Shape, RenderInv, UNCHANGED <<event, renderVars>>,
         feed'.gen = feed.gen, feed'.hash = feed.hash, feed'.etag = feed.etag
  PROVE  RenderShape' /\ RenderInv'
BY DEF Shape, RenderShape, RenderInv, renderVars, EtagIsCurrent, RendererInv,
       Rendering

\* A life-cycle operation is read without a lock and written past those who
\* hold it; what archives the feed leaves no token.
LEMMA LifecycleStep ==
  ASSUME Inv, NEW a \in Admins, Write(a) \/ \E op \in Offered : Read(a, op)
  PROVE  Inv'
PROOF
<1> USE DEF Inv, Shape
<1>1. CASE \E op \in Offered : Read(a, op)
  <2> USE <1>1 DEF Read
  <2>1. ManageShape'
    BY DEF ManageShape, Lifecycle, Operations
  <2>2. TokenInv'
    BY DEF TokenInv, LockInv, ArchivedHasNoToken, ActiveTokens, ManageShape
  <2> QED
    BY <2>1, <2>2, KeepsRendering
<1>2. CASE Write(a)
  <2> USE <1>2 DEF Write
  <2>1. /\ feed' \in FeedRows
        /\ feed'.gen = feed.gen /\ feed'.hash = feed.hash
        /\ feed'.etag = feed.etag
    <3>1. adm[a].op \in {"pause", "resume", "archive", "restore"}
      BY DEF Lifecycle
    <3>2. CASE adm[a].op = "pause"
      BY <3>2 DEF ManageShape
    <3>3. CASE adm[a].op = "resume"
      BY <3>3 DEF ManageShape
    <3>4. CASE adm[a].op = "archive"
      BY <3>4 DEF ManageShape
    <3>5. CASE adm[a].op = "restore"
      BY <3>5 DEF ManageShape
    <3> QED
      BY <3>1, <3>2, <3>3, <3>4, <3>5
  <2>2. ManageShape'
    BY <2>1 DEF ManageShape, IdleAdmin
  <2>3. LockInv'
    <3> USE DEF TokenInv, LockInv
    <3>1. \A b \in Admins : adm[b].pc # "checked"
      BY NameAssumption
    <3>2. adm' = [adm EXCEPT ![a] = IdleAdmin] /\ IdleAdmin.pc = "idle"
      BY DEF IdleAdmin
    <3>3. \A b \in Admins : adm'[b] = adm[b] \/ adm'[b] = IdleAdmin
      BY <3>2 DEF ManageShape
    <3> QED
      BY <3>1, <3>2, <3>3
  <2>4. ArchivedHasNoToken'
    <3> USE DEF ArchivedHasNoToken, ActiveTokens
    <3>1. CASE adm[a].op = "archive"
      <4>1. tokens' = [t \in Tokens |-> IF tokens[t] = "active" THEN "revoked"
                                                               ELSE tokens[t]]
        BY <3>1
      <4> QED
        BY <4>1
    <3>2. CASE adm[a].op # "archive"
      <4>1. tokens' = tokens
        BY <3>2
      <4>2. feed'.archived => feed.archived
        BY <3>2 DEF Lifecycle, ManageShape
      <4> QED
        BY <4>1, <4>2 DEF TokenInv
    <3> QED
      BY <3>1, <3>2
  <2> QED
    BY <2>1, <2>2, <2>3, <2>4, KeepsRendering DEF TokenInv
<1> QED
  BY <1>1, <1>2

\* The holder of the row is alone in having checked the feed, and inserts a
\* token for a feed that is not archived.
LEMMA TokenStep ==
  ASSUME Inv,
         \/ \E a \in Admins : Insert(a) \/ \E op \in Offered : LockAndCheck(a, op)
         \/ \E t \in Tokens : Revoke(t)
  PROVE  Inv'
PROOF
<1> USE DEF Inv, Shape
<1>1. ASSUME NEW a \in Admins, NEW op \in Offered, LockAndCheck(a, op)
      PROVE  Inv'
  <2> USE <1>1 DEF LockAndCheck
  <2>1. ManageShape'
    BY DEF ManageShape, Locked, Operations
  <2>2. LockInv'
    BY NameAssumption
    DEF TokenInv, LockInv, Locked, ManageShape, Allowed, Archived
  <2>3. ArchivedHasNoToken'
    BY DEF TokenInv, ArchivedHasNoToken, ActiveTokens
  <2> QED
    BY <2>1, <2>2, <2>3, KeepsRendering DEF TokenInv
<1>2. ASSUME NEW a \in Admins, Insert(a)
      PROVE  Inv'
  <2> USE <1>2 DEF Insert
  <2>1. lock = a /\ ~feed.archived
    BY DEF TokenInv, LockInv
  <2>2. tokens' \in [Tokens -> {"none", "active", "revoked"}]
    BY DEF ManageShape
  <2>3. ManageShape'
    BY <2>2 DEF ManageShape, IdleAdmin
  <2>4. TokenInv'
    BY <2>1 DEF TokenInv, LockInv, ArchivedHasNoToken, ManageShape, IdleAdmin
  <2> QED
    BY <2>3, <2>4, KeepsRendering
<1>3. ASSUME NEW t \in Tokens, Revoke(t)
      PROVE  Inv'
  <2> USE <1>3 DEF Revoke
  <2>1. ManageShape'
    BY DEF ManageShape
  <2>2. TokenInv'
    BY DEF TokenInv, LockInv, ArchivedHasNoToken, ActiveTokens, ManageShape
  <2> QED
    BY <2>1, <2>2, KeepsRendering
<1> QED
  BY <1>1, <1>2, <1>3

-----------------------------------------------------------------------------
(* Edits and renderers leave the tokens alone. *)

LEMMA KeepsTokens ==
  ASSUME Shape, TokenInv, UNCHANGED manageVars, feed'.archived = feed.archived,
         feed' \in FeedRows
  PROVE  ManageShape' /\ TokenInv'
BY DEF Shape, ManageShape, TokenInv, manageVars, LockInv, ArchivedHasNoToken,
       ActiveTokens

\* A change of one renderer keeps what the others hold.
LEMMA OneRenderer ==
  ASSUME Shape, RenderInv, NEW r \in Renderers, UNCHANGED feed,
         UNCHANGED ledger, UNCHANGED event, cache' \subseteq Digests,
         NoRep \notin cache', NEW local, rdr' = [rdr EXCEPT ![r] = local],
         local \in Locals,
         RendererInv(r)'
  PROVE  RenderShape' /\ RenderInv'
BY DEF Shape, RenderShape, RenderInv, EtagIsCurrent, RendererInv, Rendering

\* What the requests under way see changes nothing that they keep.
LEMMA SeenStep ==
  ASSUME Shape, RenderInv, NEW view \in Views, rdr' = Seen(view),
         event' \in Contents \cup {Absent}, UNCHANGED <<ledger, cache>>,
         feed'.gen = feed.gen, feed'.hash = feed.hash, feed'.etag = feed.etag
  PROVE  RenderShape' /\ RenderInv'
PROOF
<1> USE DEF Shape
<1>1. \A r \in Renderers :
        rdr'[r] = rdr[r] \/ rdr'[r] = [rdr[r] EXCEPT !.seen = @ \cup {view}]
  BY DEF Seen
<1>2. \A r \in Renderers :
        /\ rdr'[r] \in Locals
        /\ rdr'[r].pc = rdr[r].pc /\ rdr'[r].gen = rdr[r].gen
        /\ rdr'[r].rep = rdr[r].rep /\ rdr'[r].body = rdr[r].body
        /\ rdr'[r].etag = rdr[r].etag
  <2> SUFFICES ASSUME NEW r \in Renderers
               PROVE  /\ rdr'[r] \in Locals
                      /\ rdr'[r].pc = rdr[r].pc /\ rdr'[r].gen = rdr[r].gen
                      /\ rdr'[r].rep = rdr[r].rep
                      /\ rdr'[r].body = rdr[r].body
                      /\ rdr'[r].etag = rdr[r].etag
    OBVIOUS
  <2>1. rdr[r] \in Locals
    BY DEF RenderShape
  <2>2. rdr[r].seen \cup {view} \in SUBSET Views
    BY <2>1
  <2> QED
    BY <1>1, <2>1, <2>2
<1>3. RenderShape'
  <2>1. DOMAIN rdr' = Renderers /\ rdr' = [r \in Renderers |-> rdr'[r]]
    BY DEF Seen
  <2> HIDE DEF Locals
  <2> QED
    BY <1>2, <2>1 DEF RenderShape
<1>4. RenderInv'
  BY <1>2 DEF RenderInv, EtagIsCurrent, RendererInv, Rendering
<1> QED
  BY <1>3, <1>4

LEMMA EditStep ==
  ASSUME Inv, NEW c \in Contents \cup {Absent}, Edit(c)
  PROVE  Inv'
PROOF
<1>1. feed \in FeedRows
  BY DEF Inv, Shape, ManageShape
<1>2. ManageShape' /\ TokenInv'
  BY <1>1, KeepsTokens DEF Inv, Edit
<1>3. [Now EXCEPT !.content = c] \in Views
  BY <1>1 DEF Now, Views
<1>4. RenderShape' /\ RenderInv'
  BY <1>3, SeenStep DEF Inv, Edit
<1> QED
  BY <1>2, <1>4 DEF Inv, Shape

\* A new name reaches an archived feed as well, and takes no part in the tokens.
LEMMA RenameStep ==
  ASSUME Inv, NEW a \in Admins, NEW n \in Names, Rename(a, n)
  PROVE  Inv'
PROOF
<1> USE DEF Rename
<1>1. feed \in FeedRows /\ event \in Contents \cup {Absent}
  BY DEF Inv, Shape, ManageShape, RenderShape
<1>2. /\ feed' \in FeedRows /\ feed'.archived = feed.archived
      /\ feed'.gen = feed.gen /\ feed'.hash = feed.hash
      /\ feed'.etag = feed.etag
  BY <1>1
<1>3. [Now EXCEPT !.name = n] \in Views
  BY <1>1 DEF Now, Views
<1>4. RenderShape' /\ RenderInv'
  BY <1>1, <1>2, <1>3, SeenStep DEF Inv
<1>5. ManageShape'
  BY <1>2 DEF Inv, Shape, ManageShape, IdleAdmin
<1>6. TokenInv'
  BY <1>2
  DEF Inv, Shape, ManageShape, TokenInv, LockInv, ArchivedHasNoToken,
      ActiveTokens, IdleAdmin
<1> QED
  BY <1>4, <1>5, <1>6 DEF Inv, Shape

\* A transaction that establishes the representation and changes one renderer.
LEMMA EstablishStep ==
  ASSUME Inv, NEW r \in Renderers, Establish,
         UNCHANGED <<event, manageVars, cache>>, NEW local,
         rdr' = [rdr EXCEPT ![r] = local],
         local \in Locals,
         RendererInv(r)'
  PROVE  Inv'
PROOF
<1> USE DEF Inv, Shape
<1>1. /\ ledger' \in LedgerRows
      /\ feed' \in FeedRows
  BY EstablishShape
<1>2. \/ feed' = feed
      \/ /\ feed'.gen = feed.gen + 1 /\ feed'.etag = NoRep
         /\ feed'.archived = feed.archived
  BY EstablishCases
<1>3. ManageShape' /\ TokenInv'
  BY <1>1, <1>2, KeepsTokens
<1>4. RenderShape'
  BY <1>1 DEF RenderShape
<1>5. feed.gen \in Nat
  BY DEF ManageShape
<1>6. RenderInv'
  <2>1. EtagIsCurrent'
    BY <1>2 DEF RenderInv, EtagIsCurrent
  <2>2. ASSUME NEW q \in Renderers, q # r PROVE RendererInv(q)'
    <3>1. rdr'[q] = rdr[q] /\ rdr[q].gen \in Nat
      BY <2>2 DEF RenderShape
    <3>2. RendererInv(q)
      BY DEF RenderInv
    <3> QED
      BY <1>2, <1>5, <3>1, <3>2 DEF RendererInv, Rendering
  <2> QED
    BY <2>1, <2>2 DEF RenderInv
<1> QED
  BY <1>3, <1>4, <1>6

(* A renderer's first transaction: it keeps the representation as the feed now *)
(* has it.                                                                     *)
LEMMA SnapshotStep ==
  ASSUME Inv, NEW r \in Renderers, Snapshot(r)
  PROVE  Inv'
PROOF
<1> DEFINE local == [rdr[r] EXCEPT !.pc = "body", !.rep = feed'.hash,
                                  !.gen = feed'.gen, !.etag = feed'.etag]
<1>1. /\ Establish
      /\ rdr' = [rdr EXCEPT ![r] = local]
      /\ UNCHANGED <<event, manageVars, cache>>
  BY DEF Snapshot
<1>2. /\ rdr \in [Renderers -> Locals] /\ rdr[r] \in Locals
      /\ feed \in FeedRows /\ EtagIsCurrent
  BY DEF Inv, Shape, RenderShape, ManageShape, RenderInv
<1>3. rdr'[r] = local
  BY <1>1, <1>2
<1>4. feed' \in FeedRows /\ feed'.hash # NoRep
  BY <1>1, EstablishShape DEF Inv
<1>5. feed'.hash \in Digests /\ feed'.gen \in Nat /\ feed'.etag \in Digests
  BY <1>4
<1>6. feed'.etag \in {NoRep, feed'.hash}
  <2>1. feed' = feed \/ feed'.etag = NoRep
    BY <1>1, EstablishCases DEF Inv
  <2> QED
    BY <1>2, <2>1 DEF EtagIsCurrent
<1>7. local \in Locals
  BY <1>2, <1>5
<1>8. /\ local.pc = "body" /\ local.rep = feed'.hash /\ local.gen = feed'.gen
      /\ local.etag = feed'.etag
  BY <1>2
<1> HIDE DEF local
<1>9. RendererInv(r)'
  BY <1>3, <1>4, <1>5, <1>6, <1>8 DEF RendererInv, Rendering
<1> QED
  BY <1>1, <1>7, <1>9, EstablishStep

\* A step of one renderer that writes no row.
LEMMA LocalStep ==
  ASSUME Inv, NEW r \in Renderers,
         UNCHANGED <<event, feed, manageVars, ledger>>,
         cache' \subseteq Digests, NoRep \notin cache', NEW local,
         rdr' = [rdr EXCEPT ![r] = local], local \in Locals, RendererInv(r)'
  PROVE  Inv'
PROOF
<1>1. ManageShape' /\ TokenInv'
  BY KeepsTokens DEF Inv, Shape, ManageShape
<1>2. RenderShape' /\ RenderInv'
  BY OneRenderer DEF Inv
<1> QED
  BY <1>1, <1>2 DEF Inv, Shape

\* A renderer that ends keeps nothing.
LEMMA IdleFacts ==
  IdleRenderer \in Locals /\ IdleRenderer.pc = "idle" /\ NoRep \in Digests
BY DEF IdleRenderer, NoRep, Digests

LEMMA EndsInv ==
  ASSUME Inv, NEW r \in Renderers, Ends(r)
  PROVE  RendererInv(r)'
PROOF
<1>1. rdr'[r] = IdleRenderer
  BY DEF Ends, Inv, Shape, RenderShape
<1> QED
  BY <1>1, IdleFacts DEF RendererInv, Rendering

LEMMA OpenStep ==
  ASSUME Inv, NEW r \in Renderers, NEW t \in Tokens \cup {NoToken}, Open(r, t)
  PROVE  Inv'
PROOF
<1> DEFINE local == [IdleRenderer EXCEPT !.pc = "establish", !.token = t,
                                         !.seen = IF r \in Readers THEN {Now}
                                                                   ELSE {}]
<1>1. /\ rdr' = [rdr EXCEPT ![r] = local]
      /\ UNCHANGED <<event, feed, manageVars, ledger, cache>>
  BY DEF Open
<1>2. rdr \in [Renderers -> Locals] /\ Now \in Views
  BY DEF Inv, Shape, RenderShape, ManageShape, Now, Views
<1>3. local \in Locals /\ local.pc = "establish"
  BY <1>2, IdleFacts
<1>4. rdr'[r] = local
  BY <1>1, <1>2
<1>5. cache' \subseteq Digests /\ NoRep \notin cache'
  BY <1>1 DEF Inv, Shape, RenderShape, RenderInv
<1> HIDE DEF local
<1>6. RendererInv(r)'
  BY <1>3, <1>4 DEF RendererInv, Rendering
<1> QED
  BY <1>1, <1>3, <1>5, <1>6, LocalStep

\* The cached body of the etag a renderer read is the body of the
\* representation it read with it.
LEMMA BodyStep ==
  ASSUME Inv, NEW r \in Renderers, Body(r)
  PROVE  Inv'
PROOF
<1> DEFINE body  == IF rdr[r].etag \in cache THEN rdr[r].etag ELSE rdr[r].rep
           local == [rdr[r] EXCEPT !.pc = "confirm", !.etag = NoRep,
                                   !.body = body]
<1>1. /\ rdr' = [rdr EXCEPT ![r] = local]
      /\ UNCHANGED <<event, feed, manageVars, ledger, cache>>
      /\ rdr[r].pc = "body"
  BY DEF Body
<1>2. rdr \in [Renderers -> Locals] /\ rdr[r] \in Locals
  BY DEF Inv, Shape, RenderShape
<1>3. cache' \subseteq Digests /\ NoRep \notin cache'
  BY <1>1 DEF Inv, Shape, RenderShape, RenderInv
<1>4. RendererInv(r) /\ NoRep \notin cache
  BY DEF Inv, RenderInv
<1>5. body = rdr[r].rep
  BY <1>1, <1>4 DEF RendererInv
<1> HIDE DEF body
<1>6. local \in Locals
  BY <1>2, <1>5, IdleFacts
<1>7. /\ local.pc = "confirm" /\ local.body = rdr[r].rep
      /\ local.rep = rdr[r].rep /\ local.gen = rdr[r].gen
  BY <1>2, <1>5
<1>8. rdr'[r] = local
  BY <1>1, <1>2
<1> HIDE DEF local
<1>9. RendererInv(r)'
  BY <1>1, <1>4, <1>7, <1>8 DEF RendererInv, Rendering
<1> QED
  BY <1>1, <1>3, <1>6, <1>9, LocalStep

\* Moving on to where the body is still held keeps what is held.
LEMMA GoesLocal ==
  ASSUME Inv, NEW r \in Renderers,
         NEW pc \in {"establish", "confirm", "persist", "cache", "recheck",
                     "final"},
         Goes(r, pc)
  PROVE  /\ rdr' = [rdr EXCEPT ![r] = [rdr[r] EXCEPT !.pc = pc]]
         /\ [rdr[r] EXCEPT !.pc = pc] \in Locals
         /\ rdr'[r].pc = pc /\ rdr'[r].rep = rdr[r].rep
         /\ rdr'[r].gen = rdr[r].gen /\ rdr'[r].body = rdr[r].body
BY DEF Inv, Shape, RenderShape, Goes

LEMMA ConfirmStep ==
  ASSUME Inv, NEW r \in Renderers, Confirm(r)
  PROVE  Inv'
PROOF
<1>1. /\ Establish
      /\ UNCHANGED <<event, manageVars, cache>>
      /\ rdr[r].pc \in {"confirm", "recheck"}
  BY DEF Confirm
<1>2. CASE Ends(r)
  BY <1>1, <1>2, EndsInv, IdleFacts, EstablishStep DEF Ends
<1>3. ASSUME NEW pc \in {"establish", "persist", "cache", "final"}, Goes(r, pc)
      PROVE  Inv'
  <2>1. /\ rdr' = [rdr EXCEPT ![r] = [rdr[r] EXCEPT !.pc = pc]]
        /\ [rdr[r] EXCEPT !.pc = pc] \in Locals
        /\ rdr'[r].pc = pc /\ rdr'[r].rep = rdr[r].rep
        /\ rdr'[r].gen = rdr[r].gen /\ rdr'[r].body = rdr[r].body
    BY <1>3, GoesLocal
  <2>2. \/ feed' = feed
        \/ feed'.gen = feed.gen + 1
    BY <1>1, EstablishCases DEF Inv
  <2>3. feed.gen \in Nat /\ rdr[r].gen \in Nat
    BY DEF Inv, Shape, ManageShape, RenderShape
  <2>4. RendererInv(r)
    BY DEF Inv, RenderInv
  <2>5. RendererInv(r)'
    BY <1>1, <2>1, <2>2, <2>3, <2>4 DEF RendererInv, Rendering
  <2> QED
    BY <1>1, <2>1, <2>5, EstablishStep
<1> QED
  BY <1>2, <1>3 DEF Confirm

\* The steps that end a rendering, or move it on, and write no row.
LEMMA MoveStep ==
  ASSUME Inv, NEW r \in Renderers,
         UNCHANGED <<event, feed, manageVars, ledger>>,
         cache' \subseteq Digests, NoRep \notin cache',
         \/ Ends(r)
         \/ /\ Rendering(r) /\ rdr[r].pc # "body"
            /\ \E pc \in {"persist", "cache", "recheck"} : Goes(r, pc)
  PROVE  Inv'
PROOF
<1>1. CASE Ends(r)
  BY <1>1, EndsInv, IdleFacts, LocalStep DEF Ends
<1>2. ASSUME NEW pc \in {"persist", "cache", "recheck"}, Goes(r, pc),
             Rendering(r), rdr[r].pc # "body"
      PROVE  Inv'
  <2>1. /\ rdr' = [rdr EXCEPT ![r] = [rdr[r] EXCEPT !.pc = pc]]
        /\ [rdr[r] EXCEPT !.pc = pc] \in Locals
        /\ rdr'[r].pc = pc /\ rdr'[r].rep = rdr[r].rep
        /\ rdr'[r].gen = rdr[r].gen /\ rdr'[r].body = rdr[r].body
    BY <1>2, GoesLocal
  <2>2. RendererInv(r)
    BY DEF Inv, RenderInv
  <2>3. RendererInv(r)'
    BY <1>2, <2>1, <2>2 DEF RendererInv, Rendering
  <2> QED
    BY <2>1, <2>3, LocalStep
<1> QED
  BY <1>1, <1>2

\* Storing a body keeps to bodies of representations; the rest writes nothing.
LEMMA QuietStep ==
  ASSUME Inv, NEW r \in Renderers, NotFound(r) \/ Store(r) \/ Serve(r)
  PROVE  Inv'
PROOF
<1>1. cache \subseteq Digests /\ NoRep \notin cache /\ rdr[r] \in Locals
  BY DEF Inv, Shape, RenderShape, RenderInv
<1>2. CASE NotFound(r)
  BY <1>1, <1>2, MoveStep DEF NotFound
<1>3. CASE Serve(r)
  BY <1>1, <1>3, MoveStep DEF Serve
<1>4. CASE Store(r)
  <2>1. Rendering(r) /\ rdr[r].pc # "body"
    BY <1>4 DEF Store, Rendering
  <2>2. rdr[r].body \in Digests /\ rdr[r].body # NoRep
    BY <1>1, <2>1 DEF Inv, RenderInv, RendererInv
  <2>3. cache' \subseteq Digests /\ NoRep \notin cache'
    BY <1>1, <1>4, <2>2 DEF Store
  <2>4. Ends(r) \/ \E pc \in {"persist", "cache", "recheck"} : Goes(r, pc)
    BY <1>4 DEF Store
  <2> QED
    BY <1>4, <2>1, <2>3, <2>4, MoveStep DEF Store
<1> QED
  BY <1>2, <1>3, <1>4

\* The etag is saved for the generation that was rendered, whose
\* representation is then the feed's.
LEMMA PersistStep ==
  ASSUME Inv, NEW r \in Renderers, Persist(r)
  PROVE  Inv'
PROOF
<1>1. /\ feed' = IF SameGeneration(r) THEN [feed EXCEPT !.etag = rdr[r].body]
                 ELSE feed
      /\ UNCHANGED <<event, manageVars, ledger, cache>>
      /\ rdr[r].pc = "persist"
      /\ Ends(r) \/ Goes(r, "cache")
  BY DEF Persist
<1>2. /\ rdr \in [Renderers -> Locals] /\ rdr[r] \in Locals /\ feed \in FeedRows
      /\ RenderInv /\ RendererInv(r)
  BY DEF Inv, Shape, RenderShape, ManageShape, RenderInv
<1>3. feed' \in FeedRows
  BY <1>1, <1>2
<1>4. /\ feed'.gen = feed.gen /\ feed'.hash = feed.hash
      /\ feed'.archived = feed.archived
  BY <1>1, <1>2
<1>5. feed'.etag = feed.etag \/ feed'.etag = feed.hash
  <2>1. CASE SameGeneration(r)
    <3>1. rdr[r].body = feed.hash
      BY <1>1, <1>2, <2>1 DEF SameGeneration, RendererInv, Rendering
    <3> QED
      BY <1>1, <1>2, <2>1, <3>1
  <2>2. CASE ~SameGeneration(r)
    BY <1>1, <2>2
  <2> QED
    BY <2>1, <2>2
<1>6. ManageShape' /\ TokenInv'
  BY <1>1, <1>3, <1>4, KeepsTokens DEF Inv
<1>7. /\ rdr' \in [Renderers -> Locals]
      /\ RendererInv(r)'
      /\ \A q \in Renderers : q # r => rdr'[q] = rdr[q]
  <2>1. CASE Ends(r)
    BY <1>2, <2>1, EndsInv, IdleFacts DEF Ends
  <2>2. CASE Goes(r, "cache")
    <3>1. /\ rdr' = [rdr EXCEPT ![r] = [rdr[r] EXCEPT !.pc = "cache"]]
          /\ [rdr[r] EXCEPT !.pc = "cache"] \in Locals
          /\ rdr'[r].pc = "cache" /\ rdr'[r].rep = rdr[r].rep
          /\ rdr'[r].gen = rdr[r].gen /\ rdr'[r].body = rdr[r].body
      BY <2>2, GoesLocal
    <3>2. RendererInv(r)'
      BY <1>1, <1>2, <1>4, <3>1 DEF RendererInv, Rendering
    <3> QED
      BY <1>2, <3>1, <3>2
  <2> QED
    BY <1>1, <2>1, <2>2
<1>8. RenderShape'
  BY <1>1, <1>7 DEF Inv, Shape, RenderShape
<1>9. RenderInv'
  <2>1. EtagIsCurrent'
    BY <1>2, <1>4, <1>5 DEF RenderInv, EtagIsCurrent
  <2>2. ASSUME NEW q \in Renderers, q # r PROVE RendererInv(q)'
    BY <1>2, <1>4, <1>7, <2>2 DEF RenderInv, RendererInv, Rendering
  <2> QED
    BY <1>1, <1>2, <1>7, <2>1, <2>2 DEF RenderInv
<1> QED
  BY <1>6, <1>8, <1>9 DEF Inv, Shape

LEMMA EvictStep ==
  ASSUME Inv, Evict
  PROVE  Inv'
PROOF
<1>1. ManageShape' /\ TokenInv'
  BY KeepsTokens DEF Inv, Shape, ManageShape, Evict
<1>2. RenderShape' /\ RenderInv'
  BY DEF Inv, Shape, RenderShape, RenderInv, EtagIsCurrent, RendererInv,
         Rendering, Evict
<1> QED
  BY <1>1, <1>2 DEF Inv, Shape

LEMMA StepInv == Inv /\ [Next]_vars => Inv'
PROOF
<1> SUFFICES ASSUME Inv, [Next]_vars PROVE Inv'
  OBVIOUS
<1>1. ASSUME NEW a \in Admins, NEW op \in Offered, Read(a, op) PROVE Inv'
  BY <1>1, LifecycleStep
<1>2. ASSUME NEW a \in Admins, NEW op \in Offered, LockAndCheck(a, op)
      PROVE  Inv'
  BY <1>2, TokenStep
<1>3. ASSUME NEW a \in Admins, Write(a) PROVE Inv'
  BY <1>3, LifecycleStep
<1>4. ASSUME NEW a \in Admins, Insert(a) PROVE Inv'
  BY <1>4, TokenStep
<1>5. ASSUME NEW t \in Tokens, Revoke(t) PROVE Inv'
  BY <1>5, TokenStep
<1>6. ASSUME NEW c \in Contents \cup {Absent}, Edit(c) PROVE Inv'
  BY <1>6, EditStep
<1>7. ASSUME NEW r \in Renderers, Render(r) PROVE Inv'
  BY <1>7, SnapshotStep, BodyStep, ConfirmStep, QuietStep, PersistStep
  DEF Render
<1>8. ASSUME NEW r \in Renderers, NEW t \in Tokens \cup {NoToken}, Open(r, t)
      PROVE  Inv'
  BY <1>8, OpenStep
<1>9. ASSUME NEW r \in Readers, Serve(r) PROVE Inv'
  BY <1>9, QuietStep DEF Renderers
<1>12. ASSUME NEW a \in Admins, NEW n \in Names, Rename(a, n) PROVE Inv'
  BY <1>12, RenameStep
<1>10. CASE Evict
  BY <1>10, EvictStep
<1>11. CASE UNCHANGED vars
  BY <1>11 DEF vars, Inv, Shape, ManageShape, RenderShape, TokenInv, LockInv,
               ArchivedHasNoToken, ActiveTokens, RenderInv, EtagIsCurrent,
               RendererInv, Rendering
<1> QED
  BY <1>1, <1>2, <1>3, <1>4, <1>5, <1>6, <1>7, <1>8, <1>9, <1>10, <1>11, <1>12
  DEF Next

-----------------------------------------------------------------------------

LEMMA Invariant == Spec => []Inv
BY InitInv, StepInv, PTL DEF Spec

(* Issue, rotation, archive and restore in any number and any order never      *)
(* leave an archived feed with an active token.                                *)
THEOREM ArchivedHasNoTokenHolds == Spec => []ArchivedHasNoToken
PROOF
<1>1. Inv => ArchivedHasNoToken
  BY DEF Inv, TokenInv
<1> QED
  BY <1>1, Invariant, PTL

(* Whatever renders at once, and however late it saves its etag, the saved     *)
(* etag is that of the feed's present representation.                          *)
THEOREM EtagIsCurrentHolds == Spec => []EtagIsCurrent
PROOF
<1>1. Inv => EtagIsCurrent
  BY DEF Inv, RenderInv
<1> QED
  BY <1>1, Invariant, PTL

-----------------------------------------------------------------------------
(* Sequences, generations and what calendar clients are shown *)

\* What a representation, and a version, may be after so many edits.
Issued == [name : Names \cup {NoName}, content : Contents \cup {Absent},
           seq : -1 .. edits]
Issues == [content : Contents \cup {Absent}, seq : -1 .. edits]

CountInv ==
  /\ edits \in 0 .. MaxEdits /\ ops \in 0 .. MaxOps
  /\ requests \in 0 .. MaxRequests

(* The ledger and the feed move on at most once for an edit or a new name:     *)
(* while they are behind, they have a step less than there were of these.      *)
LedgerInv ==
  /\ ~ledger.known => ~ledger.present
  /\ ledger.seq =< edits
  /\ ledger.known /\ Reconciled # ledger => ledger.seq < edits
  /\ feed.gen =< edits + 1
  /\ feed.hash # Represented(Reconciled) => feed.gen =< edits

IssuedInv ==
  /\ feed.hash \in Issued /\ feed.etag \in Issued
  /\ cache \subseteq Issued

\* A version of the event that was published: the ledger has a later one, or
\* the same.
Published(d) ==
  /\ ledger.known
  /\ \/ d.seq < ledger.seq
     \/ d.seq = ledger.seq /\ d.content = ledger.content

ShownInv ==
  /\ shown \in [Readers -> [body : Issued, event : Issues]]
  /\ \A r \in Readers :
       shown[r].event = Version(NoRep) \/ Published(shown[r].event)

(* What a client's request holds was true of the feed at a moment it has seen, *)
(* and is no older than what the client was shown before.                      *)
Held(r) ==
  /\ {rdr[r].rep, rdr[r].etag, rdr[r].body} \subseteq Issued
  /\ r \in Readers /\ rdr[r].pc # "idle" => Now \in rdr[r].seen
  /\ r \in Readers /\ Rendering(r) => View(rdr[r].rep) \in rdr[r].seen
  /\ r \in Readers /\ Rendering(r) /\ rdr[r].rep.content # Absent =>
       /\ Published(Version(rdr[r].rep))
       /\ \/ Version(rdr[r].rep) = shown[r].event
          \/ rdr[r].rep.seq > shown[r].event.seq

Aux == /\ CountInv /\ LedgerInv /\ IssuedInv /\ ShownInv
       /\ \A r \in Renderers : Held(r)

LEMMA InitAux == Init => Aux
PROOF
<1> SUFFICES ASSUME Init PROVE Aux
  OBVIOUS
<1> USE DEF Init
<1>1. CountInv
  BY BoundAssumption DEF CountInv
<1>2. NoRep \in Issued /\ Version(NoRep) \in Issues
  BY DEF NoRep, Issued, Issues, Version
<1>3. LedgerInv
  BY DEF LedgerInv
<1>4. IssuedInv /\ ShownInv
  BY <1>2 DEF IssuedInv, ShownInv
<1>5. ASSUME NEW r \in Renderers PROVE Held(r)
  <2>1. rdr[r] = IdleRenderer
    OBVIOUS
  <2> QED
    BY <1>2, <2>1 DEF Held, Rendering, IdleRenderer
<1> QED
  BY <1>1, <1>3, <1>4, <1>5 DEF Aux

\* A version stays published, and a representation issued, as time goes on.
LEMMA IssuedGrows ==
  ASSUME CountInv, edits' >= edits, edits' \in Nat
  PROVE  Issued \subseteq Issued' /\ Issues \subseteq Issues'
PROOF
<1>1. edits \in Nat /\ -1 .. edits \subseteq -1 .. edits'
  BY DEF CountInv
<1> QED
  BY <1>1 DEF Issued, Issues

LEMMA RowsStill ==
  ASSUME UNCHANGED <<event, ledger>>, feed'.name = feed.name
  PROVE  /\ Reconciled' = Reconciled
         /\ Represented(Reconciled)' = Represented(Reconciled)
BY DEF Reconciled, Represented, Changed

\* Establishing once leaves nothing to establish, and what it establishes is
\* the event under the name.
LEMMA ReconciledFacts ==
  ASSUME Shape, LedgerInv, CountInv
  PROVE  /\ Represented(Reconciled).content = event
         /\ Represented(Reconciled).name = feed.name
         /\ \/ /\ event = Absent
               /\ Represented(Reconciled) = [name |-> feed.name,
                                             content |-> event, seq |-> 0]
            \/ /\ Represented(Reconciled) = [name |-> feed.name,
                                             content |-> event,
                                             seq |-> Reconciled.seq]
               /\ Reconciled.known /\ Reconciled.content = event
         /\ Reconciled.seq \in 0 .. edits
         /\ Reconciled.known = FALSE => Reconciled.present = FALSE
         /\ ledger.known =>
              /\ Reconciled.known
              /\ \/ Reconciled.seq > ledger.seq
                 \/ /\ Reconciled.seq = ledger.seq
                    /\ Reconciled.content = ledger.content
PROOF
<1> USE DEF Shape, RenderShape
<1>0. ledger \in LedgerRows /\ edits \in Nat
  BY DEF CountInv
<1>1. CASE event = Absent
  <2>1. CASE ledger.present
    <3>1. Reconciled = [ledger EXCEPT !.present = FALSE, !.seq = @ + 1]
      BY <1>1, <2>1 DEF Reconciled
    <3>2. ledger.known
      BY <1>0, <2>1 DEF LedgerInv
    <3>3. /\ Reconciled.present = FALSE /\ Reconciled.seq = ledger.seq + 1
          /\ Reconciled.known = ledger.known
      BY <1>0, <3>1
    <3>4. Reconciled # ledger
      BY <1>0, <3>3
    <3>5. ledger.seq < edits
      BY <3>2, <3>4 DEF LedgerInv
    <3> QED
      BY <1>0, <1>1, <3>2, <3>3, <3>5 DEF Represented
  <2>2. CASE ~ledger.present
    <3>1. Reconciled = ledger
      BY <1>1, <2>2 DEF Reconciled
    <3> QED
      BY <1>0, <1>1, <2>2, <3>1 DEF Represented, LedgerInv
  <2> QED
    BY <2>1, <2>2
<1>2. CASE event # Absent /\ ~ledger.known
  <2>1. Reconciled = [known |-> TRUE, present |-> TRUE, seq |-> 0, content |-> event]
    BY <1>2 DEF Reconciled
  <2> QED
    BY <1>0, <1>2, <2>1 DEF Represented
<1>3. CASE event # Absent /\ ledger.known /\ Changed
  <2>1. Reconciled = [ledger EXCEPT !.present = TRUE, !.seq = @ + 1, !.content = event]
    BY <1>3 DEF Reconciled
  <2>2. /\ Reconciled.present /\ Reconciled.seq = ledger.seq + 1
        /\ Reconciled.known = ledger.known /\ Reconciled.content = event
    BY <1>0, <2>1
  <2>3. Reconciled # ledger
    BY <1>0, <2>2
  <2>4. ledger.seq < edits
    BY <1>3, <2>3 DEF LedgerInv
  <2> QED
    BY <1>0, <1>3, <2>2, <2>4 DEF Represented
<1>4. CASE event # Absent /\ ledger.known /\ ~Changed
  <2>1. Reconciled = ledger /\ ledger.present /\ ledger.content = event
    BY <1>4 DEF Reconciled, Changed
  <2> QED
    BY <1>0, <1>4, <2>1 DEF Represented, LedgerInv
<1> QED
  BY <1>1, <1>2, <1>3, <1>4

LEMMA EstablishAux ==
  ASSUME Shape, Aux, Establish, UNCHANGED <<event, edits>>
  PROVE  /\ LedgerInv'
         /\ feed'.hash \in Issued /\ View(feed'.hash) = Now
         /\ feed'.name = feed.name
         /\ feed'.etag \in {NoRep, feed.etag}
         /\ feed'.hash.content # Absent =>
              /\ ledger'.known
              /\ feed'.hash.seq = ledger'.seq
              /\ feed'.hash.content = ledger'.content
         /\ \A d \in Issues : Published(d) => Published(d)'
PROOF
<1> DEFINE rep == Represented(Reconciled)
<1>0. /\ LedgerInv /\ CountInv /\ edits \in Nat
      /\ ledger \in LedgerRows /\ feed \in FeedRows
      /\ event \in Contents \cup {Absent}
  BY DEF Aux, CountInv, Shape, ManageShape, RenderShape
<1>1. /\ ledger' = Reconciled
      /\ feed' = IF feed.hash = rep THEN feed ELSE Reset(rep)
  BY DEF Establish, EstablishedFeed
<1>2. /\ rep.content = event /\ rep.name = feed.name
      /\ \/ /\ event = Absent
            /\ rep = [name |-> feed.name, content |-> event, seq |-> 0]
         \/ /\ rep = [name |-> feed.name, content |-> event,
                       seq |-> ledger'.seq]
            /\ ledger'.known /\ ledger'.content = event
      /\ ledger'.seq \in 0 .. edits
      /\ ledger'.known = FALSE => ledger'.present = FALSE
      /\ ledger.known =>
           /\ ledger'.known
           /\ \/ ledger'.seq > ledger.seq
              \/ ledger'.seq = ledger.seq /\ ledger'.content = ledger.content
  BY <1>0, <1>1, ReconciledFacts
<1>3. ledger' \in LedgerRows /\ feed' \in FeedRows
  BY EstablishShape
<1>4. Reconciled' = ledger'
  BY <1>0, <1>1, <1>3, <1>2 DEF Reconciled, Changed
<1>11. feed'.name = feed.name
  BY EstablishCases
<1>5. Represented(Reconciled)' = rep
  BY <1>1, <1>4, <1>11 DEF Represented
<1>6. rep \in Issued
  BY <1>0, <1>2 DEF Issued
<1>7. feed'.hash = rep /\ feed'.gen =< edits + 1 /\ feed'.etag \in {NoRep, feed.etag}
  <2>1. CASE feed.hash = rep
    BY <1>0, <1>1, <2>1 DEF LedgerInv
  <2>2. CASE feed.hash # rep
    <3>1. feed.gen =< edits /\ feed.gen \in Nat
      BY <1>0, <2>2 DEF LedgerInv
    <3>2. feed' = [feed EXCEPT !.gen = feed.gen + 1, !.hash = rep, !.etag = NoRep]
      BY <1>1, <2>2 DEF Reset
    <3>3. feed'.gen = feed.gen + 1 /\ feed'.hash = rep /\ feed'.etag = NoRep
      BY <1>0, <3>2
    <3> QED
      BY <1>0, <3>1, <3>3
  <2> QED
    BY <2>1, <2>2
<1> HIDE DEF rep
<1>8. LedgerInv'
  BY <1>0, <1>2, <1>3, <1>4, <1>5, <1>7 DEF LedgerInv
<1>9. ASSUME NEW d \in Issues, Published(d) PROVE Published(d)'
  BY <1>0, <1>2, <1>3, <1>9 DEF Published, Issues
<1>10. ASSUME rep.content # Absent
       PROVE  /\ ledger'.known
              /\ feed'.hash.seq = ledger'.seq
              /\ feed'.hash.content = ledger'.content
  BY <1>2, <1>7, <1>10
<1>12. View(feed'.hash) = Now
  BY <1>2, <1>7 DEF View, Now
<1> QED
  BY <1>2, <1>6, <1>7, <1>8, <1>9, <1>10, <1>11, <1>12

\* A step that leaves the rows' representation alone.
LEMMA RowsAux ==
  ASSUME Aux, UNCHANGED <<event, ledger, edits, ops, requests>>,
         feed'.gen = feed.gen, feed'.hash = feed.hash, feed'.name = feed.name
  PROVE  LedgerInv' /\ CountInv' /\ \A d : Published(d)' <=> Published(d)
BY RowsStill DEF Aux, LedgerInv, CountInv, Published

\* What administrators do.
LEMMA ManageAux ==
  ASSUME Aux, UNCHANGED <<event, edits, renderVars>>, ops' \in 0 .. MaxOps,
         feed'.gen = feed.gen, feed'.hash = feed.hash, feed'.etag = feed.etag,
         feed'.name = feed.name
  PROVE  Aux'
PROOF
<1>1. LedgerInv' /\ CountInv'
  BY RowsStill DEF Aux, LedgerInv, CountInv, renderVars
<1>2. IssuedInv' /\ ShownInv' /\ \A r \in Renderers : Held(r)'
  BY DEF Aux, IssuedInv, ShownInv, Held, Now, Rendering, Published, Issued,
         Issues, renderVars
<1> QED
  BY <1>1, <1>2 DEF Aux

LEMMA AdminAux ==
  ASSUME Inv, Aux,
         \/ \E a \in Admins : \/ \E op \in Offered : Read(a, op) \/ LockAndCheck(a, op)
                              \/ Write(a) \/ Insert(a)
         \/ \E t \in Tokens : Revoke(t)
  PROVE  Aux'
PROOF
<1>0. ops \in 0 .. MaxOps /\ MaxOps \in Nat
  BY BoundAssumption DEF Aux, CountInv
<1>1. ASSUME NEW a \in Admins, NEW op \in Offered, Read(a, op) \/ LockAndCheck(a, op)
      PROVE  Aux'
  <2>1. ops < MaxOps /\ ops' = ops + 1 /\ UNCHANGED <<event, feed, edits, renderVars>>
    BY <1>1 DEF Read, LockAndCheck
  <2> QED
    BY <1>0, <2>1, ManageAux
<1>2. ASSUME NEW a \in Admins, Write(a) PROVE Aux'
  <2>1. /\ UNCHANGED <<event, edits, renderVars>> /\ ops' = ops
        /\ feed'.gen = feed.gen /\ feed'.hash = feed.hash
        /\ feed'.etag = feed.etag /\ feed'.name = feed.name
    <3>1. adm[a].op \in {"pause", "resume", "archive", "restore"}
      BY <1>2 DEF Lifecycle, Write
    <3>2. feed \in FeedRows
      BY DEF Inv, Shape, ManageShape
    <3> QED
      BY <1>2, <3>1, <3>2 DEF Write
  <2> QED
    BY <1>0, <2>1, ManageAux
<1>3. ASSUME NEW a \in Admins, Insert(a) PROVE Aux'
  BY <1>0, <1>3, ManageAux DEF Insert
<1>4. ASSUME NEW t \in Tokens, Revoke(t) PROVE Aux'
  <2>1. ops < MaxOps /\ ops' = ops + 1 /\ UNCHANGED <<event, feed, edits, renderVars>>
    BY <1>4 DEF Revoke
  <2> QED
    BY <1>0, <2>1, ManageAux
<1> QED
  BY <1>1, <1>2, <1>3, <1>4

(* An edit, or a new name, is seen by every request under way, and leaves the  *)
(* feed and the ledger at most one step further behind.                        *)
LEMMA SeenAux ==
  ASSUME Inv, Aux, rdr' = Seen(Now'),
         edits < MaxEdits, edits' = edits + 1,
         feed'.gen = feed.gen, feed'.hash = feed.hash, feed'.etag = feed.etag,
         UNCHANGED <<ops, ledger, cache, requests, shown>>
  PROVE  Aux'
PROOF
<1>0. /\ edits \in Nat /\ MaxEdits \in Nat
      /\ rdr \in [Renderers -> Locals]
  BY BoundAssumption DEF Aux, CountInv, Inv, Shape, RenderShape
<1>1. CountInv'
  BY <1>0 DEF Aux, CountInv
<1>2. Issued \subseteq Issued' /\ Issues \subseteq Issues'
  BY <1>0, IssuedGrows DEF Aux
<1>3. LedgerInv'
  <2>1. ledger.seq \in Nat /\ feed.gen \in Nat
    BY DEF Inv, Shape, RenderShape, ManageShape
  <2> QED
    BY <1>0, <2>1 DEF Aux, LedgerInv
<1>4. IssuedInv'
  BY <1>0, <1>2 DEF Aux, IssuedInv
<1>5. ShownInv'
  BY <1>0, <1>2 DEF Aux, ShownInv, Published
<1>6. ASSUME NEW r \in Renderers PROVE Held(r)'
  <2>1. Held(r)
    BY DEF Aux
  <2>2. \/ ~(r \in Readers /\ rdr[r].pc # "idle") /\ rdr'[r] = rdr[r]
        \/ /\ r \in Readers /\ rdr[r].pc # "idle"
           /\ rdr'[r] = [rdr[r] EXCEPT !.seen = @ \cup {Now'}]
    BY DEF Seen
  <2>3. /\ rdr'[r].pc = rdr[r].pc /\ rdr'[r].rep = rdr[r].rep
        /\ rdr'[r].body = rdr[r].body /\ rdr'[r].etag = rdr[r].etag
        /\ r \in Readers /\ rdr[r].pc # "idle" =>
             rdr'[r].seen = rdr[r].seen \cup {Now'}
    BY <1>0, <2>2
  <2> QED
    BY <1>0, <1>2, <2>1, <2>3 DEF Held, Rendering, Published
<1> QED
  BY <1>1, <1>3, <1>4, <1>5, <1>6 DEF Aux

LEMMA EditAux ==
  ASSUME Inv, Aux, NEW c \in Contents \cup {Absent}, Edit(c)
  PROVE  Aux'
PROOF
<1>1. Now' = [Now EXCEPT !.content = c]
  BY DEF Now, Edit
<1> QED
  BY <1>1, SeenAux DEF Edit, manageVars

LEMMA RenameAux ==
  ASSUME Inv, Aux, NEW a \in Admins, NEW n \in Names, Rename(a, n)
  PROVE  Aux'
PROOF
<1>1. feed \in FeedRows
  BY DEF Inv, Shape, ManageShape
<1>2. /\ feed'.gen = feed.gen /\ feed'.hash = feed.hash
      /\ feed'.etag = feed.etag /\ feed'.name = n
  BY <1>1 DEF Rename
<1>3. Now' = [Now EXCEPT !.name = n]
  BY <1>2 DEF Now, Rename
<1> QED
  BY <1>2, <1>3, SeenAux DEF Rename

\* A renderer's step keeps what the others hold.
LEMMA OthersHeld ==
  ASSUME Inv, Aux, NEW r \in Renderers, NEW local,
         rdr' = [rdr EXCEPT ![r] = local],
         UNCHANGED <<Now, edits>>,
         \A q \in Readers : q # r => shown'[q] = shown[q],
         \A d \in Issues : Published(d) => Published(d)',
         Held(r)'
  PROVE  \A q \in Renderers : Held(q)'
PROOF
<1> SUFFICES ASSUME NEW q \in Renderers, q # r PROVE Held(q)'
  OBVIOUS
<1>1. rdr'[q] = rdr[q] /\ Held(q)
  BY DEF Inv, Shape, RenderShape, Aux
<1>2. Issued' = Issued /\ Now' = Now
  BY DEF Issued
<1>3. ASSUME NEW rep \in Issued
      PROVE  Version(rep) \in Issues /\ Version(rep)' = Version(rep)
  BY DEF Issued, Issues, Version
<1> QED
  BY <1>1, <1>2, <1>3 DEF Held, Rendering

\* A step of one renderer that leaves the ledger and the representation alone.
LEMMA LocalAux ==
  ASSUME Inv, Aux, NEW r \in Renderers, NEW local,
         rdr' = [rdr EXCEPT ![r] = local],
         UNCHANGED <<event, ledger, edits, ops, shown>>,
         requests' \in 0 .. MaxRequests,
         feed'.gen = feed.gen, feed'.hash = feed.hash, feed'.etag \in Issued,
         feed'.name = feed.name,
         cache' \subseteq Issued,
         Held(r)'
  PROVE  Aux'
PROOF
<1>1. LedgerInv' /\ CountInv'
  BY RowsStill DEF Aux, LedgerInv, CountInv
<1>2. /\ Issued' = Issued /\ Issues' = Issues
      /\ \A d \in Issues : Published(d) => Published(d)'
  BY DEF Issued, Issues, Published
<1>3. IssuedInv'
  BY <1>2 DEF Aux, IssuedInv
<1>4. ShownInv'
  BY <1>2 DEF Aux, ShownInv, Published
<1>5. \A q \in Renderers : Held(q)'
  BY <1>2, OthersHeld DEF Now
<1> QED
  BY <1>1, <1>3, <1>4, <1>5 DEF Aux

\* An idle renderer holds nothing.
LEMMA IdleHeld ==
  ASSUME Inv, CountInv, UNCHANGED edits, NEW r \in Renderers, Ends(r)
  PROVE  Held(r)'
PROOF
<1>1. rdr'[r] = IdleRenderer
  BY DEF Ends, Inv, Shape, RenderShape
<1>2. /\ IdleRenderer.pc = "idle" /\ IdleRenderer.rep = NoRep
      /\ IdleRenderer.etag = NoRep /\ IdleRenderer.body = NoRep
  BY DEF IdleRenderer
<1>3. NoRep \in Issued'
  BY DEF NoRep, Issued, CountInv
<1> QED
  BY <1>1, <1>2, <1>3 DEF Held, Rendering

\* What is held stays held where a renderer only moves on.
LEMMA GoesHeld ==
  ASSUME Inv, Aux, NEW r \in Renderers, UNCHANGED <<Now, edits, shown>>,
         NEW pc \in {"establish", "confirm", "persist", "cache", "recheck",
                     "final"},
         Goes(r, pc), Rendering(r),
         \A d \in Issues : Published(d) => Published(d)'
  PROVE  Held(r)'
PROOF
<1>1. /\ rdr'[r].pc = pc /\ rdr'[r].rep = rdr[r].rep
      /\ rdr'[r].body = rdr[r].body
      /\ rdr'[r].etag = rdr[r].etag /\ rdr'[r].seen = rdr[r].seen
  BY DEF Inv, Shape, RenderShape, Goes
<1>2. Held(r) /\ Issued' = Issued
  BY DEF Aux, Issued
<1>3. Version(rdr[r].rep) \in Issues /\ Version(rdr'[r].rep) = Version(rdr[r].rep)
  BY <1>1, <1>2 DEF Held, Issued, Issues, Version
<1> QED
  BY <1>1, <1>2, <1>3 DEF Held, Rendering

LEMMA OpenAux ==
  ASSUME Inv, Aux, NEW r \in Renderers, NEW t \in Tokens \cup {NoToken}, Open(r, t)
  PROVE  Aux'
PROOF
<1> DEFINE local == [IdleRenderer EXCEPT !.pc = "establish", !.token = t,
                                         !.seen = IF r \in Readers THEN {Now}
                                                                   ELSE {}]
<1>1. /\ rdr' = [rdr EXCEPT ![r] = local]
      /\ UNCHANGED <<event, feed, ledger, cache, edits, shown, ops>>
      /\ requests < MaxRequests /\ requests' = requests + 1
  BY DEF Open, manageVars
<1>2. requests' \in 0 .. MaxRequests
  BY <1>1, BoundAssumption DEF Aux, CountInv
<1>3. /\ local.pc = "establish" /\ local.rep = NoRep /\ local.etag = NoRep
      /\ local.body = NoRep /\ (r \in Readers => local.seen = {Now})
  BY DEF IdleRenderer
<1>4. rdr'[r] = local
  BY <1>1 DEF Inv, Shape, RenderShape
<1>5. NoRep \in Issued /\ Issued' = Issued
  BY <1>1 DEF NoRep, Issued, Aux, CountInv
<1> HIDE DEF local
<1>6. Held(r)'
  BY <1>1, <1>3, <1>4, <1>5 DEF Held, Now, Rendering
<1> QED
  BY <1>1, <1>2, <1>6, LocalAux DEF Aux, IssuedInv

\* A transaction that establishes the representation, by one renderer.
LEMMA EstablishesAux ==
  ASSUME Inv, Aux, NEW r \in Renderers, NEW local, Establish,
         UNCHANGED <<event, edits, ops, requests, cache, shown>>,
         rdr' = [rdr EXCEPT ![r] = local],
         Held(r)'
  PROVE  Aux'
PROOF
<1>1. /\ LedgerInv' /\ feed'.hash \in Issued /\ feed'.etag \in {NoRep, feed.etag}
      /\ feed'.name = feed.name
      /\ \A d \in Issues : Published(d) => Published(d)'
  BY EstablishAux DEF Inv
<1>2. Issued' = Issued /\ NoRep \in Issued /\ Issues' = Issues
  BY DEF NoRep, Issued, Issues, Aux, CountInv
<1>3. IssuedInv'
  BY <1>1, <1>2 DEF Aux, IssuedInv
<1>4. ShownInv'
  <2>1. \A q \in Readers : shown[q].event \in Issues
    BY DEF Aux, ShownInv
  <2> QED
    BY <1>1, <1>2, <2>1 DEF Aux, ShownInv
<1>5. \A q \in Renderers : Held(q)'
  BY <1>1, OthersHeld DEF Now
<1>6. CountInv'
  BY DEF Aux, CountInv
<1> QED
  BY <1>1, <1>3, <1>4, <1>5, <1>6 DEF Aux

(* The representation a renderer reads is that of the event as it then is, and *)
(* no older than anything its client was shown.                                *)
LEMMA SnapshotAux ==
  ASSUME Inv, Aux, NEW r \in Renderers, Snapshot(r)
  PROVE  Aux'
PROOF
<1> DEFINE local == [rdr[r] EXCEPT !.pc = "body", !.rep = feed'.hash,
                                  !.gen = feed'.gen, !.etag = feed'.etag]
<1>1. /\ Establish /\ rdr[r].pc = "establish"
      /\ rdr' = [rdr EXCEPT ![r] = local]
      /\ UNCHANGED <<event, edits, ops, requests, cache, shown>>
  BY DEF Snapshot, manageVars
<1>2. /\ rdr \in [Renderers -> Locals] /\ rdr[r] \in Locals
      /\ ledger \in LedgerRows /\ Held(r)
  BY DEF Inv, Shape, RenderShape, Aux
<1>3. /\ rdr'[r].pc = "body" /\ rdr'[r].rep = feed'.hash
      /\ rdr'[r].etag = feed'.etag /\ rdr'[r].body = rdr[r].body
      /\ rdr'[r].seen = rdr[r].seen
  BY <1>1, <1>2
<1> HIDE DEF local
<1>4. /\ feed'.hash \in Issued /\ View(feed'.hash) = Now
      /\ feed'.name = feed.name
      /\ feed'.etag \in {NoRep, feed.etag}
      /\ feed'.hash.content # Absent =>
           /\ ledger'.known
           /\ feed'.hash.seq = ledger'.seq
           /\ feed'.hash.content = ledger'.content
      /\ \A d \in Issues : Published(d) => Published(d)'
  BY <1>1, EstablishAux DEF Inv
<1>5. Issued' = Issued /\ NoRep \in Issued /\ edits \in Nat
  BY <1>1 DEF NoRep, Issued, Aux, CountInv
<1>6. {rdr'[r].rep, rdr'[r].etag, rdr'[r].body} \subseteq Issued'
  BY <1>2, <1>3, <1>4, <1>5 DEF Held, Aux, IssuedInv
<1>7. (r \in Readers => Now \in rdr[r].seen) /\ Now' = Now
  BY <1>1, <1>2, <1>4 DEF Held, Now
<1>8. ASSUME r \in Readers, rdr'[r].rep.content # Absent
      PROVE  /\ Published(Version(rdr[r].rep))'
             /\ \/ Version(rdr'[r].rep) = shown'[r].event
                \/ rdr'[r].rep.seq > shown'[r].event.seq
  <2> DEFINE old == shown[r].event
             new == Version(feed'.hash)
  <2>2. /\ old \in Issues
        /\ \/ old = Version(NoRep)
           \/ old.seq < ledger'.seq
           \/ old.seq = ledger'.seq /\ old.content = ledger'.content
    <3>1. old \in Issues /\ (old = Version(NoRep) \/ Published(old))
      BY <1>8 DEF Aux, ShownInv
    <3> QED
      BY <1>4, <3>1 DEF Published
  <2>3. /\ new.seq = ledger'.seq /\ new.content = ledger'.content
        /\ new \in Issues /\ ledger'.known
    BY <1>3, <1>4, <1>8 DEF Version, Issued, Issues
  <2>4. new = old \/ new.seq > old.seq
    <3>1. CASE old = Version(NoRep)
      <4>1. ledger'.seq \in Nat
        BY <1>1, EstablishShape DEF Inv
      <4> QED
        BY <2>3, <3>1, <4>1 DEF NoRep, Version
    <3>2. CASE \/ old.seq < new.seq
               \/ old.seq = new.seq /\ old.content = new.content
      BY <1>5, <2>2, <2>3, <3>2 DEF Issues
    <3> QED
      BY <2>2, <2>3, <3>1, <3>2
  <2>5. new.seq = rdr'[r].rep.seq /\ new = Version(rdr'[r].rep)
    BY <1>3 DEF Version
  <2>6. Published(Version(rdr[r].rep))'
    BY <1>3, <2>3 DEF Published, Version
  <2> HIDE DEF new
  <2> QED
    BY <1>1, <2>4, <2>5, <2>6
<1>9. View(rdr[r].rep)' = Now
  BY <1>3, <1>4 DEF View
<1>10. Version(rdr[r].rep)' = Version(rdr'[r].rep)
  BY DEF Version
<1>11. Held(r)'
  BY <1>1, <1>3, <1>4, <1>6, <1>7, <1>8, <1>9, <1>10 DEF Held, Rendering
<1> QED
  BY <1>1, <1>11, EstablishesAux

LEMMA BodyAux ==
  ASSUME Inv, Aux, NEW r \in Renderers, Body(r)
  PROVE  Aux'
PROOF
<1> DEFINE body  == IF rdr[r].etag \in cache THEN rdr[r].etag ELSE rdr[r].rep
           local == [rdr[r] EXCEPT !.pc = "confirm", !.etag = NoRep,
                                   !.body = body]
<1>1. /\ rdr' = [rdr EXCEPT ![r] = local] /\ rdr[r].pc = "body"
      /\ UNCHANGED <<event, feed, ledger, cache, edits, ops, requests, shown>>
  BY DEF Body, manageVars
<1>2. /\ rdr \in [Renderers -> Locals] /\ rdr[r] \in Locals /\ Held(r)
  BY DEF Inv, Shape, RenderShape, Aux
<1>3. Issued' = Issued /\ NoRep \in Issued /\ body \in Issued
  BY <1>1, <1>2 DEF NoRep, Issued, Aux, CountInv, Held
<1> HIDE DEF body
<1>4. /\ rdr'[r].pc = "confirm" /\ rdr'[r].rep = rdr[r].rep
      /\ rdr'[r].etag = NoRep /\ rdr'[r].body = body
      /\ rdr'[r].seen = rdr[r].seen
  BY <1>1, <1>2
<1> HIDE DEF local
<1>5. Held(r)'
  BY <1>1, <1>2, <1>3, <1>4 DEF Held, Now, Rendering, Published
<1> QED
  BY <1>1, <1>5, LocalAux DEF Aux, IssuedInv, CountInv

LEMMA ConfirmAux ==
  ASSUME Inv, Aux, NEW r \in Renderers, Confirm(r)
  PROVE  Aux'
PROOF
<1>1. /\ Establish /\ Rendering(r)
      /\ UNCHANGED <<event, edits, ops, requests, cache, shown>>
  BY DEF Confirm, manageVars, Rendering
<1>2. UNCHANGED Now /\ \A d \in Issues : Published(d) => Published(d)'
  BY <1>1, EstablishAux DEF Inv, Now
<1>3. CASE Ends(r)
  BY <1>1, <1>3, IdleHeld, EstablishesAux DEF Ends, Aux
<1>4. ASSUME NEW pc \in {"establish", "persist", "cache", "final"}, Goes(r, pc)
      PROVE  Aux'
  BY <1>1, <1>2, <1>4, GoesHeld, GoesLocal, EstablishesAux
<1> QED
  BY <1>3, <1>4 DEF Confirm

LEMMA QuietAux ==
  ASSUME Inv, Aux, NEW r \in Renderers, NotFound(r) \/ Store(r) \/ Persist(r)
  PROVE  Aux'
PROOF
<1>1. /\ UNCHANGED <<event, ledger, edits, ops, requests, shown>>
      /\ feed'.gen = feed.gen /\ feed'.hash = feed.hash
      /\ feed'.name = feed.name
      /\ feed'.etag \in {feed.etag, rdr[r].body}
      /\ cache' \in {cache, cache \cup {rdr[r].body}}
      /\ \/ Ends(r)
         \/ Rendering(r) /\ \E pc \in {"persist", "cache", "recheck"} : Goes(r, pc)
  <2>1. CASE NotFound(r) \/ Store(r)
    BY <2>1 DEF NotFound, Store, manageVars, Rendering
  <2>2. CASE Persist(r)
    <3>1. feed \in FeedRows
      BY DEF Inv, Shape, ManageShape
    <3> QED
      BY <2>2, <3>1 DEF Persist, manageVars, Rendering
  <2> QED
    BY <2>1, <2>2
<1>2. rdr[r].body \in Issued
  BY DEF Aux, Held
<1>3. feed'.etag \in Issued /\ cache' \subseteq Issued
  BY <1>1, <1>2 DEF Aux, IssuedInv
<1>4. requests' \in 0 .. MaxRequests /\ \A d \in Issues : Published(d) => Published(d)'
  BY <1>1 DEF Aux, CountInv, Published
<1>5. CASE Ends(r)
  <2>1. Held(r)'
    BY <1>1, <1>5, IdleHeld DEF Aux
  <2> QED
    BY <1>1, <1>3, <1>4, <1>5, <2>1, LocalAux DEF Ends
<1>6. ASSUME Rendering(r), NEW pc \in {"persist", "cache", "recheck"}, Goes(r, pc)
      PROVE  Aux'
  <2>1. Held(r)'
    BY <1>1, <1>4, <1>6, GoesHeld DEF Now
  <2>2. rdr' = [rdr EXCEPT ![r] = [rdr[r] EXCEPT !.pc = pc]]
    BY <1>6, GoesLocal
  <2> QED
    BY <1>1, <1>3, <1>4, <2>1, <2>2, LocalAux
<1> QED
  BY <1>1, <1>5, <1>6

(* The subscriber gets the body of the representation its request holds.       *)
LEMMA ServeFacts ==
  ASSUME Inv, Aux, NEW r \in Readers, Serve(r)
  PROVE  /\ Rendering(r) /\ rdr[r].body = rdr[r].rep
         /\ \/ shown' = shown
            \/ shown' = [shown EXCEPT ![r] =
                 [body |-> rdr[r].rep,
                  event |-> IF rdr[r].rep.content = Absent
                            THEN shown[r].event
                            ELSE Version(rdr[r].rep)]]
PROOF
<1>1. Rendering(r) /\ rdr[r].pc = "final"
  BY DEF Serve, Rendering
<1>2. RendererInv(r)
  BY DEF Inv, RenderInv, Renderers
<1>3. rdr[r].body = rdr[r].rep
  BY <1>1, <1>2 DEF RendererInv
<1>4. shown \in [Readers -> [body : Issued, event : Issues]]
  BY DEF Aux, ShownInv
<1> QED
  BY <1>1, <1>3, <1>4 DEF Serve

LEMMA ServeAux ==
  ASSUME Inv, Aux, NEW r \in Readers, Serve(r)
  PROVE  Aux'
PROOF
<1>1. /\ UNCHANGED <<event, feed, ledger, cache, edits, ops, requests>>
      /\ Ends(r)
  BY DEF Serve, manageVars
<1>2. r \in Renderers /\ Held(r)
  BY DEF Renderers, Aux
<1>3. /\ Issued' = Issued /\ Issues' = Issues
      /\ \A d \in Issues : Published(d) => Published(d)'
  BY <1>1 DEF Issued, Issues, Published
<1>4. LedgerInv' /\ CountInv' /\ IssuedInv'
  BY <1>1, <1>3, RowsStill DEF Aux, LedgerInv, CountInv, IssuedInv
<1> DEFINE new == [body |-> rdr[r].rep,
                   event |-> IF rdr[r].rep.content = Absent
                             THEN shown[r].event
                             ELSE Version(rdr[r].rep)]
<1>5. Rendering(r) /\ (shown' = shown \/ shown' = [shown EXCEPT ![r] = new])
  BY ServeFacts
<1>6. /\ new \in [body : Issued, event : Issues]
      /\ new.event = Version(NoRep) \/ Published(new.event)
  <2>1. Version(rdr[r].rep) \in Issues
    BY <1>2 DEF Held, Issued, Issues, Version
  <2> QED
    BY <1>2, <1>5, <2>1 DEF Held, Aux, ShownInv
<1> HIDE DEF new
<1>7. ShownInv'
  BY <1>3, <1>5, <1>6 DEF Aux, ShownInv
<1>8. \A q \in Readers : q # r => shown'[q] = shown[q]
  BY <1>5 DEF Aux, ShownInv
<1>9. \A q \in Renderers : Held(q)'
  <2>1. Held(r)'
    BY <1>1, <1>2, IdleHeld DEF Aux
  <2> QED
    BY <1>1, <1>2, <1>3, <1>8, <2>1, OthersHeld DEF Ends, Now
<1> QED
  BY <1>4, <1>7, <1>9 DEF Aux

LEMMA StepAux == Inv /\ Aux /\ [Next]_vars => Aux'
PROOF
<1> SUFFICES ASSUME Inv, Aux, [Next]_vars PROVE Aux'
  OBVIOUS
<1>1. ASSUME NEW a \in Admins,
             \/ \E op \in Offered : Read(a, op) \/ LockAndCheck(a, op)
             \/ Write(a) \/ Insert(a)
      PROVE  Aux'
  BY <1>1, AdminAux
<1>2. ASSUME NEW t \in Tokens, Revoke(t) PROVE Aux'
  BY <1>2, AdminAux
<1>3. ASSUME NEW c \in Contents \cup {Absent}, Edit(c) PROVE Aux'
  BY <1>3, EditAux
<1>4. ASSUME NEW r \in Renderers, Render(r) PROVE Aux'
  BY <1>4, SnapshotAux, BodyAux, ConfirmAux, QuietAux DEF Render
<1>5. ASSUME NEW r \in Renderers, NEW t \in Tokens \cup {NoToken}, Open(r, t)
      PROVE  Aux'
  BY <1>5, OpenAux
<1>6. ASSUME NEW r \in Readers, Serve(r) PROVE Aux'
  BY <1>6, ServeAux
<1>9. ASSUME NEW a \in Admins, NEW n \in Names, Rename(a, n) PROVE Aux'
  BY <1>9, RenameAux
<1>7. CASE Evict
  <2>1. IssuedInv' /\ ShownInv' /\ \A r \in Renderers : Held(r)'
    BY <1>7 DEF Evict, manageVars, Aux, IssuedInv, ShownInv, Held, Rendering,
               Published, Issued, Issues, Now
  <2> QED
    BY <1>7, <2>1, RowsAux DEF Evict, manageVars, Aux
<1>8. CASE UNCHANGED vars
  <2>1. IssuedInv' /\ ShownInv' /\ \A r \in Renderers : Held(r)'
    BY <1>8 DEF vars, Aux, IssuedInv, ShownInv, Held, Rendering, Published,
               Issued, Issues, Now
  <2> QED
    BY <1>8, <2>1, RowsAux DEF vars, Aux
<1> QED
  BY <1>1, <1>2, <1>3, <1>4, <1>5, <1>6, <1>7, <1>8, <1>9 DEF Next

LEMMA AuxInvariant == Spec => [](Inv /\ Aux)
BY InitInv, InitAux, StepInv, StepAux, PTL DEF Spec

(* Every state is well typed.  The bounds are part of it: the ledger's         *)
(* sequence and the feed's generation rise at most once for an edit or a new   *)
(* name, however many requests and jobs establish the representation.          *)
THEOREM TypeCorrect == Spec => []TypeOK
PROOF
<1>1. Inv /\ Aux => TypeOK
  <2> SUFFICES ASSUME Inv, Aux PROVE TypeOK
    OBVIOUS
  <2>1. /\ edits \in 0 .. MaxEdits /\ MaxEdits \in Nat
        /\ feed \in FeedRows /\ ledger \in LedgerRows
        /\ rdr \in [Renderers -> Locals]
    BY BoundAssumption DEF Aux, CountInv, Inv, Shape, ManageShape, RenderShape
  <2>2. Issued \subseteq Reps /\ Issues \subseteq Versions
    BY <2>1 DEF Issued, Reps, Issues, Versions
  <2>3. feed \in [status : {"active", "paused", "archived"}, archived : BOOLEAN,
                  name : Names, gen : 0 .. 2 * MaxEdits + 2, hash : Reps,
                  etag : Reps]
    <3>1. feed.hash \in Reps /\ feed.etag \in Reps
      BY <2>2 DEF Aux, IssuedInv
    <3>2. feed.gen \in 0 .. 2 * MaxEdits + 2
      BY <2>1 DEF Aux, LedgerInv
    <3> QED
      BY <2>1, <3>1, <3>2
  <2>4. ledger \in [known : BOOLEAN, present : BOOLEAN,
                    seq : 0 .. 2 * MaxEdits + 1,
                    content : Contents \cup {Absent}]
    <3>1. ledger.seq \in 0 .. 2 * MaxEdits + 1
      BY <2>1 DEF Aux, LedgerInv
    <3> QED
      BY <2>1, <3>1
  <2> DEFINE Kept == [pc : {"idle", "establish", "body", "confirm", "persist",
                            "cache", "recheck", "final"},
                      token : Tokens \cup {NoToken}, rep : Reps, gen : Nat,
                      etag : Reps, body : Reps,
                      seen : SUBSET Views]
  <2>5. ASSUME NEW r \in Renderers PROVE rdr[r] \in Kept
    <3>1. rdr[r].rep \in Reps /\ rdr[r].etag \in Reps /\ rdr[r].body \in Reps
      BY <2>2 DEF Aux, Held
    <3>2. rdr[r] \in Locals
      BY <2>1
    <3> QED
      BY <3>1, <3>2
  <2>6. rdr \in [Renderers -> Kept]
    BY <2>1, <2>5
  <2>7. cache \subseteq Reps /\ shown \in [Readers -> [body : Reps, event : Versions]]
    BY <2>2 DEF Aux, IssuedInv, ShownInv
  <2> HIDE DEF Kept
  <2>8. rdr \in [Renderers ->
       [pc : {"idle", "establish", "body", "confirm", "persist", "cache",
              "recheck", "final"},
        token : Tokens \cup {NoToken}, rep : Reps, gen : Nat, etag : Reps,
        body : Reps, seen : SUBSET Views]]
    BY <2>6 DEF Kept
  <2> QED
    BY <2>3, <2>4, <2>7, <2>8
    DEF TypeOK, Inv, Shape, ManageShape, RenderShape, Aux, CountInv
<1> QED
  BY <1>1, AuxInvariant, PTL

(* Nothing a calendar client is given, name or event, is older than its        *)
(* request.                                                                    *)
THEOREM ServedIsCurrentHolds == Spec => ServedIsCurrent
PROOF
<1> DEFINE Fresh == \A r \in Readers :
             shown'[r] # shown[r] => View(shown'[r].body) \in rdr[r].seen
<1>1. Inv /\ Aux /\ [Next]_vars => [Fresh]_vars
  <2> SUFFICES ASSUME Inv, Aux, Next PROVE Fresh
    OBVIOUS
  <2>1. ASSUME NEW q \in Readers, Serve(q), NEW r \in Readers,
               shown'[r] # shown[r]
        PROVE  View(shown'[r].body) \in rdr[r].seen
    <3>1. Rendering(q) /\ q \in Renderers /\ Held(q)
      BY <2>1, ServeFacts DEF Renderers, Aux
    <3>2. r = q /\ shown'[r].body = rdr[r].rep
      BY <2>1, ServeFacts DEF Aux, ShownInv
    <3> QED
      BY <3>1, <3>2 DEF Held
  <2>2. \/ shown' = shown
        \/ \E q \in Readers : Serve(q)
    BY DEF Next, Read, LockAndCheck, Write, Rename, Insert, Revoke, Edit, Render,
           Snapshot, Body, Confirm, NotFound, Persist, Store, Open, Evict,
           renderVars
  <2> QED
    BY <2>1, <2>2
<1> QED
  BY <1>1, AuxInvariant, PTL DEF Spec, ServedIsCurrent

(* What a calendar client is shown of the event never goes back in sequence,   *)
(* and a change always has a higher one.                                       *)
THEOREM SequenceRisesHolds == Spec => SequenceRises
PROOF
<1> DEFINE Rises == \A r \in Readers :
             LET old == shown[r].event
                 new == shown'[r].event
             IN  new = old \/ new.seq > old.seq
<1>1. Inv /\ Aux /\ [Next]_vars => [Rises]_vars
  <2> SUFFICES ASSUME Inv, Aux, Next PROVE Rises
    OBVIOUS
  <2>1. ASSUME NEW q \in Readers, Serve(q), NEW r \in Readers
        PROVE  \/ shown'[r].event = shown[r].event
               \/ shown'[r].event.seq > shown[r].event.seq
    <3>1. Rendering(q) /\ q \in Renderers /\ Held(q)
      BY <2>1, ServeFacts DEF Renderers, Aux
    <3>2. \/ shown'[r] = shown[r]
          \/ /\ r = q /\ rdr[r].rep.content = Absent
             /\ shown'[r].event = shown[r].event
          \/ /\ r = q /\ rdr[r].rep.content # Absent
             /\ shown'[r].event = Version(rdr[r].rep)
      BY <2>1, ServeFacts DEF Aux, ShownInv
    <3>3. Version(rdr[q].rep).seq = rdr[q].rep.seq
      BY DEF Version
    <3> QED
      BY <3>1, <3>2, <3>3 DEF Held
  <2>2. \/ shown' = shown
        \/ \E q \in Readers : Serve(q)
    BY DEF Next, Read, LockAndCheck, Write, Rename, Insert, Revoke, Edit, Render,
           Snapshot, Body, Confirm, NotFound, Persist, Store, Open, Evict,
           renderVars
  <2> QED
    BY <2>1, <2>2
<1> QED
  BY <1>1, AuxInvariant, PTL DEF Spec, SequenceRises
=============================================================================
