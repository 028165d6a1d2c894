------------------------ MODULE ClassificationEngine ------------------------
(* AccountClassificationService with its cache of rules, beside the         *)
(* requests that write rules.  auto_classify_accounts has no caller in the  *)
(* application (the run of AutoClassify took its place, tests still call    *)
(* it): its caller, who commits or rolls back, is modelled as external.     *)
(* The writers of rules and the cache actions do call its invalidation.     *)
EXTENDS Naturals, FiniteSets, Sequences

CONSTANTS
    LastRule,           \* rules are the ids 1..LastRule, in the order of creation
    RuleClass,          \* rule -> classification
    RuleType,           \* rule -> type of database
    RuleHits,           \* rule -> the accounts its expression matches
    Unsound,            \* rules that cannot be evaluated: the expression is not
                        \* valid, or an account has no facts
    Subjects,           \* permission rows of accounts
    SubjectType,        \* account -> type of database
    Asleep,             \* accounts that are inactive, or whose instance is
    OwnerScopes,        \* the sets of accounts an instance or a group owns
    NoRules,            \* the cache without its entry
    MaxLoads            \* bound: classifications

RuleIds == 1..LastRule
ASSUME EngineAssumption ==
    /\ LastRule \in Nat /\ MaxLoads \in Nat
    /\ RuleHits \in [RuleIds -> SUBSET Subjects] /\ Unsound \subseteq RuleIds
    /\ IsFiniteSet(Subjects) /\ Asleep \subseteq Subjects /\ OwnerScopes \subseteq SUBSET Subjects
    /\ DOMAIN RuleClass = RuleIds /\ RuleType \in [RuleIds -> Nat] /\ DOMAIN SubjectType = Subjects

VARIABLES
    ruleState,      \* rule -> "absent", "active" or "archived", committed
    editing,        \* what a request has flushed: rule -> state, or <<>>
    cached,         \* the ids of the entry "classification_rules:all", or NoRules
    engine,         \* the classification: at, loaded, scope, todo and its result
    assigned,       \* committed assignments: <<account, classification, rule>>
    loads,          \* classifications begun
    outdated         \* why the entry may be out of date: see CacheIsCurrent

engineVars == <<ruleState, editing, cached, engine, assigned, loads, outdated>>

Unloaded ==
    [at |-> "idle", loaded |-> {}, scope |-> {}, todo |-> {}, work |-> {},
     added |-> 0, matches |-> 0, errors |-> 0]

EngineInit ==
    /\ ruleState = [r \in RuleIds |-> "absent"]
    /\ editing = <<>> /\ cached = NoRules /\ engine = Unloaded /\ assigned = {}
    /\ loads = 0 /\ outdated = FALSE

Active(state) == {r \in RuleIds : state[r] = "active"}
RulesInFlight == engine.at \in {"asked", "fetched"}

(* The cache backend may fail at any call: get answers None, set and delete *)
(* answer False.                                                            *)
invalidate_all ==
    \/ /\ cached' = NoRules
       /\ outdated' = (editing' # <<>> \/ RulesInFlight)
    \/ cached' = cached /\ outdated' = TRUE

(* Rules are written by one request at a time: it flushes, invalidates the  *)
(* cache, and only then its transaction is committed.                       *)
Edit(state) ==
    /\ editing = <<>> /\ state # ruleState
    /\ editing' = state
    /\ invalidate_all
    /\ UNCHANGED <<ruleState, engine, assigned, loads>>

create_rule == \E r \in RuleIds :
    /\ ruleState[r] = "absent" /\ \A s \in 1..(r - 1) : ruleState[s] # "absent"
    /\ \E state \in {"active", "archived"} : Edit([ruleState EXCEPT ![r] = state])

\* In place (the flag), or a new version that archives the edited one.
update_rule == \E r \in RuleIds :
    /\ ruleState[r] # "absent"
    /\ \/ \E state \in {"active", "archived"} : Edit([ruleState EXCEPT ![r] = state])
       \/ \E new \in RuleIds :
             /\ ruleState[new] = "absent" /\ \A s \in 1..(new - 1) : ruleState[s] # "absent"
             /\ RuleClass[new] = RuleClass[r] /\ RuleType[new] = RuleType[r]
             /\ Edit([ruleState EXCEPT ![r] = "archived", ![new] = "active"])

\* No invalidation.  A rule that assignments refer to cannot be deleted, and
\* one that a transaction is releasing is waited for.
delete_rule == \E r \in RuleIds :
    /\ editing = <<>> /\ ruleState[r] # "absent"
    /\ \A row \in assigned \cup engine.work : row[3] # r
    /\ editing' = [ruleState EXCEPT ![r] = "absent"]
    /\ outdated' = TRUE
    /\ UNCHANGED <<ruleState, cached, engine, assigned, loads>>

CommitRules ==
    /\ editing # <<>>
    /\ \E commits \in BOOLEAN : ruleState' = IF commits THEN editing ELSE ruleState
    /\ editing' = <<>>
    /\ outdated' = (outdated \/ RulesInFlight)
    /\ UNCHANGED <<cached, engine, assigned, loads>>

\* The cache action, for all types or for one: both delete the only entry.
clear_classification_cache ==
    /\ editing' = editing
    /\ invalidate_all
    /\ UNCHANGED <<ruleState, engine, assigned, loads>>

Expire ==
    /\ cached # NoRules
    /\ cached' = NoRules /\ outdated' = (editing # <<>> \/ RulesInFlight)
    /\ UNCHANGED <<ruleState, editing, engine, assigned, loads>>

----------------------------------------------------------------------------
fetch_accounts(scope) == scope \ Asleep

\* Types in their order, within a type the rules in the order of the list.
Applicable(rules, accounts) == {r \in rules : \E a \in accounts : SubjectType[a] = RuleType[r]}
Precedes(r, s) == RuleType[r] < RuleType[s] \/ (RuleType[r] = RuleType[s] /\ r <= s)

(* With the rules at hand: no rule or no account ends it without a change;  *)
(* otherwise all assignments, or those of the accounts in scope, are        *)
(* deleted before the first rule is looked at.                              *)
_perform_auto_classify(rules, scope) ==
    LET accounts == fetch_accounts(scope)
        kept == IF scope = Subjects THEN {} ELSE {row \in assigned : row[1] \notin accounts}
    IN  IF rules = {} \/ accounts = {}
        THEN [Unloaded EXCEPT !.at = "refused"]
        ELSE [Unloaded EXCEPT !.at = "classify", !.loaded = rules, !.scope = scope,
                          !.todo = Applicable(rules, accounts), !.work = kept]

get_rules == \E scope \in OwnerScopes \cup {Subjects} :
    /\ engine.at = "idle" /\ loads < MaxLoads
    /\ loads' = loads + 1
    /\ \/ cached \notin {NoRules, {}} /\ engine' = _perform_auto_classify(cached, scope)
       \/ engine' = [Unloaded EXCEPT !.at = "asked", !.scope = scope]
    /\ UNCHANGED <<ruleState, editing, cached, assigned, outdated>>

fetch_active_rules ==
    /\ engine.at = "asked"
    /\ \/ engine' = [engine EXCEPT !.at = "fetched", !.loaded = Active(ruleState)]
       \/ engine' = [Unloaded EXCEPT !.at = "refused"]     \* SQLAlchemyError
    /\ outdated' = (outdated \/ editing # <<>>)
    /\ UNCHANGED <<ruleState, editing, cached, assigned, loads>>

set_rules ==
    /\ engine.at = "fetched"
    /\ \/ engine.loaded # {} /\ cached' = engine.loaded
       \/ cached' = cached
    /\ engine' = _perform_auto_classify(engine.loaded, engine.scope)
    /\ UNCHANGED <<ruleState, editing, assigned, loads, outdated>>

(* In a savepoint: the rows of the classification are replaced for the      *)
(* matched accounts.  A database error, as the foreign key of a rule that   *)
(* was deleted after it was cached, is logged, and 0 is answered.           *)
upsert_appends(work, r, accounts) == work \cup {<<a, RuleClass[r], r>> : a \in accounts}
upsert_assignments(work, r, accounts) ==
    LET replaced == {row \in work : row[1] \in accounts /\ row[2] = RuleClass[r]}
    IN  (work \ replaced) \cup {<<a, RuleClass[r], r>> : a \in accounts}

Matched(r) == {a \in RuleHits[r] \cap fetch_accounts(engine.scope) : SubjectType[a] = RuleType[r]}

\* The ways the turn of a rule can end.
RuleEnds(r) ==
    LET after == [engine EXCEPT !.todo = @ \ {r}]
        matching == [after EXCEPT !.matches = @ + Cardinality(Matched(r))]
        upserted == [matching EXCEPT !.added = @ + Cardinality(Matched(r)),
                                     !.work = upsert_assignments(@, r, Matched(r))]
    IN  \/ r \in Unsound /\ engine' = [Unloaded EXCEPT !.at = "raised"]
        \/ r \notin Unsound /\ Matched(r) = {} /\ engine' = after
        \/ r \notin Unsound /\ Matched(r) # {} /\ ruleState[r] # "absent" /\ engine' = upserted
        \/ r \notin Unsound /\ Matched(r) # {} /\ engine' = matching
        \/ r \notin Unsound /\ engine' = [after EXCEPT !.errors = @ + 1]

_classify_single_db_type ==
    /\ engine.at = "classify"
    /\ \E r \in engine.todo : (\A s \in engine.todo : Precedes(r, s)) /\ RuleEnds(r)
    /\ UNCHANGED <<ruleState, editing, cached, assigned, loads, outdated>>

auto_classify_accounts ==
    /\ engine.at = "classify" /\ engine.todo = {}
    /\ engine' = [engine EXCEPT !.at = "done"]
    /\ UNCHANGED <<ruleState, editing, cached, assigned, loads, outdated>>

\* The caller commits what succeeded; an exception that is not among those
\* the service turns into a result takes the transaction with it.
CallerEnds ==
    /\ engine.at \in {"done", "refused", "raised"}
    /\ assigned' = IF engine.at = "done" THEN engine.work ELSE assigned
    /\ engine' = Unloaded
    /\ UNCHANGED <<ruleState, editing, cached, loads, outdated>>

EngineNext ==
    \/ create_rule \/ update_rule \/ delete_rule \/ CommitRules
    \/ clear_classification_cache \/ Expire
    \/ get_rules \/ fetch_active_rules \/ set_rules
    \/ _classify_single_db_type \/ auto_classify_accounts \/ CallerEnds

EngineSpec == EngineInit /\ [][EngineNext]_engineVars

----------------------------------------------------------------------------
EngineTypeOK ==
    /\ ruleState \in [RuleIds -> {"absent", "active", "archived"}]
    /\ editing # <<>> => editing \in [RuleIds -> {"absent", "active", "archived"}]
    /\ cached # NoRules => cached \subseteq RuleIds
    /\ engine.work \cup assigned \subseteq Subjects \X {RuleClass[r] : r \in RuleIds} \X RuleIds

(* The cached rules are the active ones, unless an invalidation failed, a   *)
(* rule was deleted, or rules were being loaded while a change of them was  *)
(* not committed: the cache is emptied before the commit, not after it.     *)
CacheIsCurrent == cached # NoRules /\ ~outdated => cached = Active(ruleState)

Assigning(rules, a, c) ==
    {r \in rules : a \in RuleHits[r] /\ RuleClass[r] = c /\ RuleType[r] = SubjectType[a]}

Classes == {RuleClass[r] : r \in RuleIds}
RowsOf(work, a, c) == {row \in work : row[1] = a /\ row[2] = c}

(* A result that names no error and added what it matched: every account in *)
(* scope is assigned by the last of the rules that match it, and by nothing *)
(* else, and accounts out of scope keep what they had.                      *)
ResultTells ==
    engine.at = "done" /\ engine.errors = 0 /\ engine.added = engine.matches =>
      \A a \in Subjects, c \in Classes :
        LET by == Assigning(engine.loaded, a, c)
            rows == RowsOf(engine.work, a, c)
        IN  IF a \in fetch_accounts(engine.scope)
            THEN rows = {<<a, c, r>> : r \in {r \in by : \A s \in by : s <= r}}
            ELSE engine.scope # Subjects => rows = RowsOf(assigned, a, c)

\* Both: what is loaded is what is stored, and what is told is what was done.
EngineTells == CacheIsCurrent /\ ResultTells
=============================================================================
