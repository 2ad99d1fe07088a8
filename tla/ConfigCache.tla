---------------------------- MODULE ConfigCache ----------------------------
(***************************************************************************)
(* The configuration of one repository, as src/config/cache.rs caches it:  *)
(* a policy is read from the default branch in three requests, serves for  *)
(* a minute, and is given up when a webhook tells of a change or when it   *)
(* cannot be confirmed.  Loads of a repository run one at a time; webhooks *)
(* are observed in between, in any order, and some never arrive.           *)
(***************************************************************************)
EXTENDS Naturals, Sequences

CONSTANTS
    Branches, \* of the repository
    MaxCacheMoves, \* bound: pushes and changes of the default branch
    MaxCacheFaults \* bound: failed requests, lost webhooks, dropped loads, restarts

None == "none"
ASSUME CacheAssumption == None \notin Branches /\ MaxCacheMoves \in Nat /\ MaxCacheFaults \in Nat

VARIABLES
    heads,      \* commits of each branch
    broken,     \* commits whose configuration does not parse
    defaults,   \* the default branches so far, the last one is current
    mail,       \* webhooks on the way
    told,       \* observer: what the webhooks told so far
    generation, known, \* of the entry: changes observed, the branch
    cached,     \* what the entry's lock guards
    fetch,      \* the load that holds it
    served,     \* the last load's result
    cacheMoves, cacheFaults

github == <<heads, broken, defaults>>
entry == <<generation, known, cached>>
cacheVars == <<github, mail, told, entry, fetch, served, cacheMoves, cacheFaults>>

default == defaults[Len(defaults)]
epoch == Len(defaults)
NoPolicy == [branch |-> None]
Told == [epoch : Nat, default : Branches, heads : [Branches -> Nat]]
Policy == [branch : Branches, commit : Nat, epoch : Nat]
Result == [state : {"ready"}, policy : Policy, told : Told] \cup [state : {None, "unavailable"}]
Cached == [exists : BOOLEAN, policy : Policy \cup {NoPolicy}, generation : Nat,
           young : BOOLEAN, failed : BOOLEAN, blocked : BOOLEAN]
Empty == [exists |-> FALSE, policy |-> NoPolicy, generation |-> 0,
          young |-> FALSE, failed |-> FALSE, blocked |-> FALSE]
Free == [pc |-> "free"]

CacheTypeOK ==
    /\ heads \in [Branches -> Nat] /\ defaults \in Seq(Branches) /\ defaults # <<>>
    /\ told \in Told /\ known \in Branches \cup {None}
    /\ cached \in Cached /\ generation \in Nat /\ cached.generation <= generation
    /\ cached.young => cached.policy # NoPolicy
    /\ cached.blocked => cached.failed
    /\ fetch = Free \/ (fetch.pc \in {"metadata", "head", "file", "commit"} /\ cached.exists)
    /\ served \in Result
    /\ cacheMoves \in 0..MaxCacheMoves /\ cacheFaults \in 0..MaxCacheFaults

CacheInit ==
    /\ heads = [b \in Branches |-> 1] /\ broken = {} /\ defaults \in [1..1 -> Branches]
    /\ mail = {} /\ told = [epoch |-> 1, default |-> default, heads |-> heads]
    /\ generation = 0 /\ known = None /\ cached = Empty
    /\ fetch = Free /\ served = [state |-> None]
    /\ cacheMoves = 0 /\ cacheFaults = 0

----------------------------------------------------------------------------
(* The repository and its webhooks.                                        *)

CacheWell == UNCHANGED <<cacheMoves, cacheFaults>>
CacheFails == cacheFaults < MaxCacheFaults /\ cacheFaults' = cacheFaults + 1 /\ UNCHANGED cacheMoves

\* A webhook may be lost; every one names the default branch of its time.
Change(m) ==
    /\ cacheMoves < MaxCacheMoves /\ cacheMoves' = cacheMoves + 1
    /\ \/ mail' = mail \cup {m} /\ UNCHANGED cacheFaults
       \/ cacheFaults < MaxCacheFaults /\ cacheFaults' = cacheFaults + 1 /\ UNCHANGED mail
    /\ UNCHANGED <<told, entry, fetch, served>>

Push(b) ==
    /\ heads' = [heads EXCEPT ![b] = @ + 1]
    /\ broken' \in {broken, broken \cup {<<b, heads'[b]>>}}
    /\ Change([ref |-> b, commit |-> heads'[b], default |-> default, epoch |-> epoch])
    /\ UNCHANGED defaults

Switch(b) ==
    /\ b # default /\ defaults' = Append(defaults, b)
    /\ Change([ref |-> None, commit |-> 0, default |-> b, epoch |-> epoch + 1])
    /\ UNCHANGED <<heads, broken>>

\* observe_webhook and observe_default_branch: an entry nobody asked for is
\* not made.
Observe(m) ==
    /\ m \in mail /\ mail' = mail \ {m}
    /\ told' = [epoch |-> IF told.epoch < m.epoch THEN m.epoch ELSE told.epoch,
                default |-> IF told.epoch < m.epoch THEN m.default ELSE told.default,
                heads |-> [b \in Branches |->
                    IF b = m.ref /\ told.heads[b] < m.commit THEN m.commit ELSE told.heads[b]]]
    /\ IF ~cached.exists THEN UNCHANGED <<generation, known>>
       ELSE /\ known' = m.default
            /\ generation' = generation + (IF known # m.default THEN 1 ELSE 0)
                                        + (IF m.ref = m.default THEN 1 ELSE 0)
    /\ CacheWell /\ UNCHANGED <<github, cached, fetch, served>>

----------------------------------------------------------------------------
(* Loads.                                                                  *)

FetchAt(pc) == fetch.pc = pc
Unavailable == served' = [state |-> "unavailable"]
Begin == fetch' = [pc |-> "metadata", generation |-> generation, told |-> told]
Serve == served' = [state |-> "ready", policy |-> cached.policy, told |-> told]

\* load up to its first request: a confirmed policy serves, a failure blocks
\* until its time.
Valid == cached.generation = generation /\ cached.young /\ ~cached.failed
LoadForever ==
    /\ FetchAt("free") /\ cached' = [cached EXCEPT !.exists = TRUE]
    /\ IF cached.generation = generation /\ cached.policy # NoPolicy /\ ~cached.failed
       THEN Serve /\ UNCHANGED fetch
       ELSE IF cached.blocked THEN Unavailable /\ UNCHANGED fetch
       ELSE Begin /\ UNCHANGED served
    /\ CacheWell /\ UNCHANGED <<github, mail, told, generation, known>>
Load ==
    /\ FetchAt("free") /\ cached' = [cached EXCEPT !.exists = TRUE]
    /\ IF Valid THEN Serve /\ UNCHANGED fetch
       ELSE IF cached.blocked THEN Unavailable /\ UNCHANGED fetch
       ELSE Begin /\ UNCHANGED served
    /\ CacheWell /\ UNCHANGED <<github, mail, told, generation, known>>

\* A failed request blocks the next ones for a while.
Fail(blocked) ==
    /\ cached' = [cached EXCEPT !.failed = TRUE, !.blocked = blocked]
    /\ Unavailable /\ fetch' = Free /\ UNCHANGED <<generation, known>>
Step(pc, next) ==
    /\ FetchAt(pc) /\ UNCHANGED <<github, mail, told>>
    /\ \/ CacheWell /\ fetch' = next /\ UNCHANGED <<entry, served>>
       \/ CacheFails /\ Fail(TRUE)

Metadata == Step("metadata", [pc |-> "head", generation |-> fetch.generation, told |-> fetch.told,
                              branch |-> default, epoch |-> epoch])
ReadHead == Step("head", [pc |-> "file", generation |-> fetch.generation, told |-> fetch.told,
    policy |-> [branch |-> fetch.branch, commit |-> heads[fetch.branch], epoch |-> fetch.epoch]])
\* The commit does not change any more; a file that does not parse is a failure.
File ==
    IF FetchAt("file") /\ <<fetch.policy.branch, fetch.policy.commit>> \in broken
    THEN Fail(TRUE) /\ CacheWell /\ UNCHANGED <<github, mail, told>>
    ELSE Step("file", [fetch EXCEPT !.pc = "commit"])

\* What was read serves unless a change was observed meanwhile.
CommitUnfenced ==
    /\ FetchAt("commit") /\ known' = fetch.policy.branch
    /\ cached' = [exists |-> TRUE, policy |-> fetch.policy, generation |-> generation,
                  young |-> TRUE, failed |-> FALSE, blocked |-> FALSE]
    /\ served' = [state |-> "ready", policy |-> fetch.policy, told |-> fetch.told]
    /\ fetch' = Free /\ UNCHANGED generation
    /\ CacheWell /\ UNCHANGED <<github, mail, told>>
Commit ==
    /\ FetchAt("commit") /\ CacheWell /\ UNCHANGED <<github, mail, told>>
    /\ IF generation # fetch.generation THEN Fail(FALSE)
       ELSE /\ known' = fetch.policy.branch
            /\ cached' = [exists |-> TRUE, policy |-> fetch.policy, generation |-> generation,
                          young |-> TRUE, failed |-> FALSE, blocked |-> FALSE]
            /\ served' = [state |-> "ready", policy |-> fetch.policy, told |-> fetch.told]
            /\ fetch' = Free /\ UNCHANGED generation

\* The caller goes away, the process restarts.
Drop ==
    /\ ~FetchAt("free") /\ CacheFails /\ fetch' = Free
    /\ UNCHANGED <<github, mail, told, entry, served>>
Restart ==
    /\ CacheFails /\ fetch' = Free /\ generation' = 0 /\ known' = None /\ cached' = Empty
    /\ UNCHANGED <<github, mail, told, served>>

\* TTL_SECS and retry_after_secs.
Age ==
    /\ cached.young /\ cached' = [cached EXCEPT !.young = FALSE]
    /\ CacheWell /\ UNCHANGED <<github, mail, told, generation, known, fetch, served>>
Retry ==
    /\ cached.blocked /\ cached' = [cached EXCEPT !.blocked = FALSE]
    /\ CacheWell /\ UNCHANGED <<github, mail, told, generation, known, fetch, served>>

Loads == Load \/ Metadata \/ ReadHead \/ File \/ Commit
CacheNext ==
    \/ \E b \in Branches : Push(b) \/ Switch(b)
    \/ \E m \in mail : Observe(m)
    \/ Loads \/ Drop \/ Restart \/ Age \/ Retry

CacheSpec == CacheInit /\ [][CacheNext]_cacheVars

\* The bot keeps loading, requests end, time passes.
CacheFairSpec == CacheSpec /\ WF_cacheVars(Loads) /\ WF_cacheVars(Age) /\ WF_cacheVars(Retry)

----------------------------------------------------------------------------
(* Properties.                                                             *)

\* A load never serves a policy older than a change the bot had been told of
\* when the load began: not the branch before a rename it was told of, not
\* the commit before a push to it (observe_webhook, the fence in load).  Left
\* out: a branch that was the default one, stopped being it and is it again;
\* a refresh that read the one in between is then not noticed.
Returned(then) == \E e \in 1..then.epoch - 1 : defaults[e] = then.default
ToldChangesHonoured ==
    served.state = "ready" /\ ~Returned(served.told) =>
        /\ served.policy.branch = served.told.default \/ served.policy.epoch >= served.told.epoch
        /\ served.policy.commit >= served.told.heads[served.policy.branch]

\* When the repository stands still, loads come to serve its policy, though no
\* webhook told of it.
Current ==
    \/ <<default, heads[default]>> \in broken
    \/ /\ served.state = "ready"
       /\ served.policy.branch = default /\ served.policy.commit = heads[default]
=============================================================================
