-------------------------------- MODULE Feeds --------------------------------
(***************************************************************************)
(* One calendar feed: its life cycle and tokens, the ledger of what was    *)
(* published in it, and the requests and the rebuild job that render it.   *)
(*                                                                         *)
(* Administrators work in READ COMMITTED transactions.  Archive, pause,    *)
(* resume, restore and a change of the feed's name read the feed and then  *)
(* write it; issuing a token locks the feed's row first.  A renderer       *)
(* establishes the representation in a serialisable transaction (one       *)
(* action), builds or fetches the body, establishes again to confirm,      *)
(* stores the body, and, for a subscriber, confirms once more and checks   *)
(* the token.                                                              *)
(*                                                                         *)
(* Abstractions.                                                           *)
(*   - The feed projects one event, whose content changes as people edit   *)
(*     availability, scopes or privacy.                                    *)
(*   - A digest is the thing it digests: the fingerprint of a              *)
(*     representation, its body and the body's etag are one value.         *)
(*   - A retry may be given up at any time; the code does so at the third. *)
(*   - Tokens are numbered; nothing sets an expiry.                        *)
(***************************************************************************)
EXTENDS Integers, FiniteSets

CONSTANTS
  Readers,      \* calendar clients, one request at a time each
  Jobs,         \* runs of the rebuild job
  Admins,       \* people who manage the feed
  Offered,      \* the operations they use
  Tokens,       \* identities of tokens
  NoToken,      \* the token of the job
  NoAdmin,      \* nobody holds the feed's row lock
  Names,        \* names of the feed
  NoName,       \* the name in no representation
  Contents,     \* what the event may say
  Absent,       \* the event is not in the feed
  MaxEdits,     \* bound: changes of the event and of the name
  MaxOps,       \* bound: operations of administrators
  MaxRequests   \* bound: requests and rebuilds

Renderers == Readers \cup Jobs

Lifecycle == {"pause", "resume", "archive", "restore"}
Operations == Lifecycle \cup {"rename", "issue", "rotate"}

ASSUME NameAssumption ==
  /\ NoToken \notin Tokens /\ NoAdmin \notin Admins /\ Absent \notin Contents
  /\ NoName \notin Names /\ Readers \cap Jobs = {}
ASSUME OfferedAssumption == Offered \subseteq Operations
ASSUME TokenAssumption == Tokens \subseteq Nat
ASSUME BoundAssumption ==
  MaxEdits \in Nat /\ MaxOps \in Nat /\ MaxRequests \in Nat

VARIABLES
  event,    \* what the projection says of the event now
  feed,     \* the Feed row
  tokens,   \* the tokens' statuses, "none" before they exist
  ledger,   \* the FeedEventPublication row of the event
  cache,    \* cached bodies
  rdr,      \* renderers: what each keeps in local variables
  adm,      \* administrators
  lock,     \* who holds the feed's row
  edits, ops, requests,   \* counters of the bounded inputs
  shown     \* history: what each calendar client got last, and the event as
            \* it last had it

vars == <<event, feed, tokens, ledger, cache, rdr, adm, lock, edits, ops,
          requests, shown>>
manageVars == <<tokens, adm, lock, ops>>
renderVars == <<ledger, cache, rdr, requests, shown>>

\* What people have made of the feed: its name, and what its event says.
Views == [name : Names, content : Contents \cup {Absent}]
Now   == [name |-> feed.name, content |-> event]

\* A version of the event is its content under its sequence; a representation
\* is the feed's name and the version, or the name and no event.
Versions == [content : Contents \cup {Absent}, seq : -1 .. 2 * MaxEdits + 1]
Reps     == [name : Names \cup {NoName}, content : Contents \cup {Absent},
             seq : -1 .. 2 * MaxEdits + 1]
NoRep    == [name |-> NoName, content |-> Absent, seq |-> -1]

View(rep)    == [name |-> rep.name, content |-> rep.content]
Version(rep) == [content |-> rep.content, seq |-> rep.seq]

IdleRenderer == [pc |-> "idle", token |-> NoToken, rep |-> NoRep, gen |-> 0,
                 etag |-> NoRep, body |-> NoRep, seen |-> {}]

IdleAdmin == [pc |-> "idle", op |-> "none"]

TypeOK ==
  /\ event \in Contents \cup {Absent}
  /\ feed \in [status : {"active", "paused", "archived"}, archived : BOOLEAN,
               name : Names, gen : 0 .. 2 * MaxEdits + 2,
               hash : Reps, etag : Reps]
  /\ tokens \in [Tokens -> {"none", "active", "revoked"}]
  /\ ledger \in [known : BOOLEAN, present : BOOLEAN, seq : 0 .. 2 * MaxEdits + 1,
                 content : Contents \cup {Absent}]
  /\ cache \subseteq Reps
  /\ rdr \in [Renderers ->
       [pc : {"idle", "establish", "body", "confirm", "persist", "cache",
              "recheck", "final"},
        token : Tokens \cup {NoToken}, rep : Reps, gen : Nat, etag : Reps,
        body : Reps, seen : SUBSET Views]]
  /\ adm \in [Admins -> [pc : {"idle", "read", "checked"},
                         op : Operations \cup {"none"}]]
  /\ lock \in Admins \cup {NoAdmin}
  /\ edits \in 0 .. MaxEdits /\ ops \in 0 .. MaxOps
  /\ requests \in 0 .. MaxRequests
  /\ shown \in [Readers -> [body : Reps, event : Versions]]

FirstToken == CHOOSE t \in Tokens : \A u \in Tokens : t <= u

\* createFeed: an active feed with its first token.
Init ==
  /\ event \in Contents \cup {Absent}
  /\ \E n \in Names :
       feed = [status |-> "active", archived |-> FALSE, name |-> n, gen |-> 0,
               hash |-> NoRep, etag |-> NoRep]
  /\ tokens = [t \in Tokens |-> IF t = FirstToken THEN "active" ELSE "none"]
  /\ ledger = [known |-> FALSE, present |-> FALSE, seq |-> 0, content |-> Absent]
  /\ cache = {}
  /\ rdr = [r \in Renderers |-> IdleRenderer]
  /\ adm = [a \in Admins |-> IdleAdmin]
  /\ lock = NoAdmin
  /\ edits = 0 /\ ops = 0 /\ requests = 0
  /\ shown = [r \in Readers |-> [body |-> NoRep, event |-> Version(NoRep)]]

ActiveTokens == {t \in Tokens : tokens[t] = "active"}

(***************************************************************************)
(* Life cycle, name and tokens.                                            *)
(***************************************************************************)

\* What the reads of the operations ask of the feed.
Archived == feed.status = "archived" \/ feed.archived

Allowed(op) ==
  CASE op = "pause"   -> ~Archived /\ feed.status = "active"
    [] op = "resume"  -> ~Archived /\ feed.status = "paused"
    [] op = "archive" -> ~Archived
    [] op = "restore" -> feed.status = "archived"
    [] op = "rename"  -> ~Archived
    [] op = "issue"   -> ~Archived
    [] op = "rotate"  -> ~Archived /\ ActiveTokens # {}

\* The read of a life-cycle operation, and of a change of name, takes no lock.
Read(a, op) ==
  /\ adm[a].pc = "idle"
  /\ op \in Lifecycle \cup {"rename"}
  /\ Allowed(op)
  /\ ops < MaxOps
  /\ ops' = ops + 1
  /\ adm' = [adm EXCEPT ![a] = [pc |-> "read", op |-> op]]
  /\ UNCHANGED <<event, feed, tokens, lock, edits, renderVars>>

\* Its write waits for the row and is by id alone.  Archiving revokes, in the
\* same transaction, the tokens that are active by then.
Write(a) ==
  /\ adm[a].pc = "read" /\ adm[a].op \in Lifecycle
  /\ lock = NoAdmin
  /\ feed' = CASE adm[a].op = "pause"   -> [feed EXCEPT !.status = "paused"]
               [] adm[a].op = "resume"  -> [feed EXCEPT !.status = "active"]
               [] adm[a].op = "archive" -> [feed EXCEPT !.status = "archived",
                                                        !.archived = TRUE]
               [] adm[a].op = "restore" -> [feed EXCEPT !.status = "paused",
                                                        !.archived = FALSE]
  /\ tokens' = IF adm[a].op = "archive"
               THEN [t \in Tokens |-> IF tokens[t] = "active" THEN "revoked"
                                                              ELSE tokens[t]]
               ELSE tokens
  /\ adm' = [adm EXCEPT ![a] = IdleAdmin]
  /\ UNCHANGED <<event, lock, edits, ops, renderVars>>

\* (Mutant: the feed is read without FOR UPDATE.)
Locked_Not(a) == lock

Locked(a) == a

\* Issue and rotation lock the row, then look at the feed and its tokens.
LockAndCheck(a, op) ==
  /\ adm[a].pc = "idle"
  /\ op \in {"issue", "rotate"}
  /\ lock = NoAdmin
  /\ Allowed(op)
  /\ ops < MaxOps
  /\ ops' = ops + 1
  /\ lock' = Locked(a)
  /\ adm' = [adm EXCEPT ![a] = [pc |-> "checked", op |-> op]]
  /\ UNCHANGED <<event, feed, tokens, edits, renderVars>>

\* Rotation revokes what is active; the insert does nothing if a token still
\* is; the commit gives the row back.
Insert(a) ==
  LET kept == IF adm[a].op = "rotate"
              THEN [t \in Tokens |-> IF tokens[t] = "active" THEN "revoked"
                                                             ELSE tokens[t]]
              ELSE tokens
      new  == {t \in Tokens : tokens[t] = "none"}
  IN
  /\ adm[a].pc = "checked"
  /\ \/ /\ \A t \in Tokens : kept[t] # "active"
        /\ \E t \in new :
             /\ \A u \in new : t <= u
             /\ tokens' = [kept EXCEPT ![t] = "active"]
     \/ /\ \/ \E t \in Tokens : kept[t] = "active"
           \/ new = {}
        /\ UNCHANGED tokens
  /\ lock' = NoAdmin
  /\ adm' = [adm EXCEPT ![a] = IdleAdmin]
  /\ UNCHANGED <<event, feed, edits, ops, renderVars>>

\* revokeToken: by the token's id, without the feed's lock.
Revoke(t) ==
  /\ tokens[t] = "active"
  /\ ops < MaxOps
  /\ ops' = ops + 1
  /\ tokens' = [tokens EXCEPT ![t] = "revoked"]
  /\ UNCHANGED <<event, feed, adm, lock, edits, renderVars>>

(***************************************************************************)
(* The projection and the name change.                                     *)
(***************************************************************************)

\* The clients' requests under way see what the feed has become.
Seen(view) == [r \in Renderers |->
  IF r \in Readers /\ rdr[r].pc # "idle"
  THEN [rdr[r] EXCEPT !.seen = @ \cup {view}] ELSE rdr[r]]

Edit(c) ==
  /\ c # event
  /\ edits < MaxEdits
  /\ edits' = edits + 1
  /\ event' = c
  /\ rdr' = Seen([Now EXCEPT !.content = c])
  /\ UNCHANGED <<feed, manageVars, ledger, cache, requests, shown>>

\* updateFeed's write of a name, after its read: by the feed's id, and without
\* a word to the cache or the ledger.
Rename(a, n) ==
  /\ adm[a].pc = "read" /\ adm[a].op = "rename"
  /\ lock = NoAdmin
  /\ n # feed.name
  /\ edits < MaxEdits
  /\ edits' = edits + 1
  /\ feed' = [feed EXCEPT !.name = n]
  /\ rdr' = Seen([Now EXCEPT !.name = n])
  /\ adm' = [adm EXCEPT ![a] = IdleAdmin]
  /\ UNCHANGED <<event, tokens, lock, ops, ledger, cache, requests, shown>>

(***************************************************************************)
(* establishFeedRepresentation.                                            *)
(***************************************************************************)

Serving == feed.status = "active" /\ ~feed.archived

\* (Mutant: only an event that comes back gets a new sequence.)
Changed_Reappears == ~ledger.present

\* (Mutant: every rendering is taken for a change.)
Changed_Always == TRUE

Changed == ~ledger.present \/ ledger.content # event

\* The ledger row after the transaction.
Reconciled ==
  IF event = Absent
  THEN IF ledger.present THEN [ledger EXCEPT !.present = FALSE, !.seq = @ + 1]
                         ELSE ledger
  ELSE IF ~ledger.known
       THEN [known |-> TRUE, present |-> TRUE, seq |-> 0, content |-> event]
       ELSE IF Changed THEN [ledger EXCEPT !.present = TRUE, !.seq = @ + 1,
                                           !.content = event]
                       ELSE ledger

\* The name is part of the representation, and not of the event.
Represented(row) ==
  IF row.present
  THEN [name |-> feed.name, content |-> event, seq |-> row.seq]
  ELSE [name |-> feed.name, content |-> Absent, seq |-> 0]

\* (Mutant: the etag of the old representation is kept.)
Reset_KeepsEtag(rep) == [feed EXCEPT !.gen = @ + 1, !.hash = rep]

\* A new representation is a new generation, and has no etag yet.
Reset(rep) == [feed EXCEPT !.gen = @ + 1, !.hash = rep, !.etag = NoRep]

EstablishedFeed ==
  LET rep == Represented(Reconciled)
  IN  IF feed.hash = rep THEN feed ELSE Reset(rep)

\* The ledger and the feed are brought up to the event; a renderer reads what
\* they then are.
Establish ==
  /\ Serving
  /\ ledger' = Reconciled
  /\ feed' = EstablishedFeed

(***************************************************************************)
(* Rendering.                                                              *)
(***************************************************************************)

Goes(r, pc) == rdr' = [rdr EXCEPT ![r].pc = pc]
Ends(r)     == rdr' = [rdr EXCEPT ![r] = IdleRenderer]

\* A token's request begins if the token and the feed are active, the job's
\* rebuild if the feed is.
Open(r, t) ==
  /\ rdr[r].pc = "idle"
  /\ requests < MaxRequests
  /\ \/ r \in Readers /\ t \in ActiveTokens /\ feed.status = "active"
     \/ r \in Jobs /\ t = NoToken /\ Serving
  /\ requests' = requests + 1
  /\ rdr' = [rdr EXCEPT ![r] = [IdleRenderer EXCEPT !.pc = "establish",
                                  !.token = t,
                                  !.seen = IF r \in Readers THEN {Now} ELSE {}]]
  /\ UNCHANGED <<event, feed, manageVars, ledger, cache, edits, shown>>

Snapshot(r) ==
  /\ rdr[r].pc = "establish"
  /\ Establish
  /\ rdr' = [rdr EXCEPT ![r].pc = "body", ![r].rep = feed'.hash,
                        ![r].gen = feed'.gen, ![r].etag = feed'.etag]
  /\ UNCHANGED <<event, manageVars, cache, edits, requests, shown>>

\* bodyForRepresentation: the cached body of the saved etag, or one built from
\* the snapshot.
Body(r) ==
  /\ rdr[r].pc = "body"
  /\ rdr' = [rdr EXCEPT ![r].pc = "confirm", ![r].etag = NoRep,
       ![r].body = IF rdr[r].etag \in cache THEN rdr[r].etag ELSE rdr[r].rep]
  /\ UNCHANGED <<event, feed, manageVars, ledger, cache, edits, requests, shown>>

\* The representation is established again; if it is another, all is done again
\* or given up.
Confirm(r) ==
  LET next == IF rdr[r].pc = "recheck" THEN "final"
              ELSE IF r \in Jobs THEN "cache" ELSE "persist"
  IN
  /\ rdr[r].pc \in {"confirm", "recheck"}
  /\ Establish
  /\ \/ feed'.hash = rdr[r].rep /\ Goes(r, next)
     \/ feed'.hash # rdr[r].rep /\ (Goes(r, "establish") \/ Ends(r))
  /\ UNCHANGED <<event, manageVars, cache, edits, requests, shown>>

\* The feed stopped being served.
NotFound(r) ==
  /\ rdr[r].pc \in {"establish", "confirm", "recheck"}
  /\ ~Serving
  /\ Ends(r)
  /\ UNCHANGED <<event, feed, manageVars, ledger, cache, edits, requests, shown>>

\* (Mutant: the etag is saved whatever the feed's generation.)
SameGeneration_Any(r) == TRUE

SameGeneration(r) == feed.gen = rdr[r].gen

\* The etag is saved for the generation that was rendered.
Persist(r) ==
  /\ rdr[r].pc = "persist"
  /\ feed' = IF SameGeneration(r) THEN [feed EXCEPT !.etag = rdr[r].body] ELSE feed
  /\ \/ r \in Jobs /\ Ends(r)
     \/ r \in Readers /\ Goes(r, "cache")
  /\ UNCHANGED <<event, manageVars, ledger, cache, edits, requests, shown>>

\* The body is stored under its etag, or the store fails, which ends the job.
Store(r) ==
  /\ rdr[r].pc = "cache"
  /\ \/ cache' = cache \cup {rdr[r].body}
        /\ Goes(r, IF r \in Jobs THEN "persist" ELSE "recheck")
     \/ UNCHANGED cache
        /\ IF r \in Jobs THEN Ends(r) ELSE Goes(r, "recheck")
  /\ UNCHANGED <<event, feed, manageVars, ledger, edits, requests, shown>>

\* The last look at the token; then the subscriber has the body.
Serve(r) ==
  LET body == rdr[r].body IN
  /\ rdr[r].pc = "final"
  /\ shown' = IF tokens[rdr[r].token] = "active" /\ feed.status = "active"
              THEN [shown EXCEPT ![r] =
                      [body |-> body,
                       event |-> IF body.content = Absent THEN @.event
                                 ELSE Version(body)]]
              ELSE shown
  /\ Ends(r)
  /\ UNCHANGED <<event, feed, manageVars, ledger, cache, edits, requests>>

\* The hour of the cached bodies is over, or the store restarts.
Evict ==
  /\ cache # {}
  /\ cache' = {}
  /\ UNCHANGED <<event, feed, manageVars, ledger, rdr, edits, requests, shown>>

Render(r) ==
  \/ Snapshot(r) \/ Body(r) \/ Confirm(r) \/ NotFound(r)
  \/ Persist(r) \/ Store(r)

Next ==
  \/ \E a \in Admins :
       \/ \E op \in Offered : Read(a, op) \/ LockAndCheck(a, op)
       \/ Write(a) \/ Insert(a)
       \/ \E n \in Names : Rename(a, n)
  \/ \E t \in Tokens : Revoke(t)
  \/ \E c \in Contents \cup {Absent} : Edit(c)
  \/ \E r \in Renderers : Render(r) \/ \E t \in Tokens \cup {NoToken} : Open(r, t)
  \/ \E r \in Readers : Serve(r)
  \/ Evict

Spec == Init /\ [][Next]_vars

(***************************************************************************)
(* Properties.                                                             *)
(***************************************************************************)

\* An archived feed has no active token (PRODUCT.md: "Archived feeds have no
\* active subscribe URL"), although a token may be issued or rotated while the
\* feed is being archived: the row lock puts the one before the other.
ArchivedHasNoToken == feed.archived => ActiveTokens = {}

\* The etag a feed is saved with is that of its present representation, however
\* late the request or the job that rendered it: a later request takes the
\* cached body of this etag for the feed.
EtagIsCurrent == feed.etag # NoRep => feed.etag = feed.hash

\* What a calendar client is given, the feed's name with what the event says,
\* was true of the feed at some moment of its request: an edit, a change of
\* privacy or of the name, or a removal that was committed before the request is
\* never undone by a cached body or an old etag.
ServedIsCurrent ==
  [][\A r \in Readers :
       shown'[r] # shown[r] => View(shown'[r].body) \in rdr[r].seen]_vars

\* Calendar clients tell versions of an event by its sequence: from one fetch to
\* a later one the sequence does not fall, and it rises when the content changed;
\* a new name of the feed, which is a new generation, leaves it as it is.
SequenceRises ==
  [][\A r \in Readers :
       LET old == shown[r].event
           new == shown'[r].event
       IN  new = old \/ new.seq > old.seq]_vars
=============================================================================
