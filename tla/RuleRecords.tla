---------------------------- MODULE RuleRecords ----------------------------
(* Classification rules and their versions: AccountClassificationsWriteService. *)
(* A changed expression makes a new version and archives the edited one;     *)
(* anything else is changed in place.  Daily statistics refer to the rules   *)
(* they counted.                                                             *)
EXTENDS RequestTx

CONSTANTS Classifications, Names, Expressions,
          MaxRules            \* bound on the ids handed out

ASSUME RuleAssumption == MaxRules \in Nat

\* rules: id -> row.  counted: the rules a statistics row refers to.
VARIABLES classifications, rules, nextId, counted

ruleVars == <<classifications, rules, nextId, counted>>

RuleRow(c, name, expr, group, version, active, archived) ==
    [class |-> c, name |-> name, expr |-> expr, group |-> group,
     version |-> version, active |-> active, archived |-> archived]

RuleInit ==
    /\ classifications = Classifications
    /\ rules = << >> /\ nextId = 1 /\ counted = {}

ActiveRules == {id \in DOMAIN rules : rules[id].active}

\* exists_rule_name and exists_rule_expression look at the active rules only.
RuleFree(c, name, expr, self) ==
    \A id \in ActiveRules \ self : rules[id].class = c => rules[id].name # name /\ rules[id].expr # expr

RuleCreate(r, c, name, expr, active) ==
    /\ c \in classifications
    /\ RuleFree(c, name, expr, {})
    /\ nextId <= MaxRules
    /\ nextId' = nextId + 1
    /\ Accept(r, "rule_create", nextId, rules, RuleRow(c, name, expr, nextId, 1, active, FALSE))
    /\ UNCHANGED <<classifications, rules, counted>>

\* The name, or the flag, of the row that was loaded.
RuleEdit(r, id, name, active) ==
    /\ id \in DOMAIN rules
    /\ RuleFree(rules[id].class, name, rules[id].expr, {id})
    /\ Accept(r, "rule_edit", id, rules, [name |-> name, active |-> active])
    /\ UNCHANGED ruleVars

RuleVersionInPlace(r, id, name, expr, active) ==
    /\ id \in DOMAIN rules
    /\ RuleFree(rules[id].class, name, expr, {id})
    /\ Accept(r, "rule_edit", id, rules, [name |-> name, expr |-> expr, active |-> active])
    /\ UNCHANGED ruleVars

\* A new expression: the next version of the row that was loaded.
RuleVersion(r, id, name, expr, active) ==
    /\ id \in DOMAIN rules
    /\ expr # rules[id].expr
    /\ RuleFree(rules[id].class, name, expr, {id})
    /\ nextId <= MaxRules
    /\ nextId' = nextId + 1
    /\ Accept(r, "rule_version", id, rules,
              [row |-> RuleRow(rules[id].class, name, expr, rules[id].group,
                               rules[id].version + 1, active, FALSE),
               id  |-> nextId])
    /\ UNCHANGED <<classifications, rules, counted>>

RuleDelete(r, id) ==
    /\ id \in DOMAIN rules
    /\ Accept(r, "rule_delete", id, rules, << >>)
    /\ UNCHANGED ruleVars

\* Refused while any rule, active or not, belongs to it.
ClassificationDelete(r, c) ==
    /\ c \in classifications
    /\ \A id \in DOMAIN rules : rules[id].class # c
    /\ Accept(r, "class_delete", c, rules, << >>)
    /\ UNCHANGED ruleVars

----------------------------------------------------------------------------
\* uq_classification_rules_group_version
VersionFree(row) ==
    \A id \in DOMAIN rules : rules[id].group # row.group \/ rules[id].version # row.version

RuleWritten(tx) ==
    CASE tx.op = "rule_create" ->
           IF tx.new.class \in classifications THEN With(rules, tx.key, tx.new) ELSE rules
      [] tx.op = "rule_edit" ->
           IF tx.key \in DOMAIN rules
           THEN [rules EXCEPT ![tx.key] = Merged(@, tx.seen[tx.key], tx.new)] ELSE rules
      [] tx.op = "rule_version" ->
           IF tx.key \in DOMAIN rules /\ tx.new.row.class \in classifications /\ VersionFree(tx.new.row)
           THEN With([rules EXCEPT ![tx.key] = Merged(@, tx.seen[tx.key],
                                                      [active |-> FALSE, archived |-> TRUE])],
                     tx.new.id, tx.new.row)
           ELSE rules
      [] tx.op = "rule_delete" ->
           IF tx.key \in counted THEN rules ELSE Without(rules, {tx.key})
      [] tx.op = "class_delete" ->
           \* the rules of the classification go with it
           IF \E id \in counted : rules[id].class = tx.key THEN rules
           ELSE Without(rules, {id \in DOMAIN rules : rules[id].class = tx.key})

RuleOps == {"rule_create", "rule_edit", "rule_version", "rule_delete", "class_delete"}

RuleWrite(r) ==
    /\ req[r].op \in RuleOps
    /\ rules' = RuleWritten(req[r])
    /\ classifications' =
         IF req[r].op = "class_delete" /\ (\A id \in counted : rules[id].class # req[r].key)
         THEN classifications \ {req[r].key} ELSE classifications
    /\ Answer(r)
    /\ UNCHANGED <<nextId, counted>>

\* The daily classification counted the active rules.
CountRules ==
    /\ ActiveRules \ counted # {}
    /\ counted' = counted \cup ActiveRules
    /\ UNCHANGED <<req, classifications, rules, nextId>>

RuleCheck(r) ==
    \/ \E c \in Classifications, name \in Names, expr \in Expressions, active \in BOOLEAN :
          RuleCreate(r, c, name, expr, active)
    \/ \E id \in DOMAIN rules, name \in Names, active \in BOOLEAN :
          \/ RuleEdit(r, id, name, active)
          \/ \E expr \in Expressions : RuleVersion(r, id, name, expr, active)
    \/ \E id \in DOMAIN rules : RuleDelete(r, id)
    \/ \E c \in Classifications : ClassificationDelete(r, c)

RuleTypeOK ==
    /\ DOMAIN rules \subseteq 1 .. MaxRules
    /\ counted \subseteq DOMAIN rules
    /\ \A id \in DOMAIN rules : rules[id].class \in classifications
=============================================================================
