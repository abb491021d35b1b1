---------------------------- MODULE RuleVersions ----------------------------
(* The versions of one Sigma rule (rule_manager.py, sigma_engine/store.py): a    *)
(* change writes the rule file and reloads the engine in one go, and its version *)
(* row is stored afterwards, in a session of its own.  The learning loop sets    *)
(* and clears the shadow flag of the same file (learn_loop/apply.py) and adds    *)
(* rows past save_version().  (Creation and deletion store no version, and are   *)
(* left out; so are policies, whose store has the same calls.)                   *)
EXTENDS Naturals, Sequences, SequencesExt, FiniteSets, FiniteSetsExt

CONSTANTS
    Editors,         \* calls of update_rule() and rollback()
    Drafts,          \* what operators change the rule to
    MaxVersionFaults \* BOUND: commits of a version that fail

Rules == [detection : {"first", "second"}, severity : {"low", "high"}, shadow : BOOLEAN]

ASSUME VersionAssumption == Drafts \subseteq Rules /\ MaxVersionFaults \in Nat

VARIABLES
    rule,            \* the file: [detection, severity, shadow]
    rows,            \* rule_versions of the rule, in the order of their commits
    editor,          \* [Editors -> [at, content, latest]]
    learning,        \* the loop's action: "proposed", "shadowed", "applied", "rolled back"
    versionFaults,
    restored,        \* ghost: the number the rule was last rolled back to, 0 when written since
    overlapped       \* ghost: an edit began beside another

versionVars == <<rule, rows, editor, learning, versionFaults, restored, overlapped>>

First == [detection |-> "first", severity |-> "low", shadow |-> FALSE]
NoEdit == [at |-> "new", content |-> First, latest |-> 0]

VersionsInit ==
    /\ rule = First /\ rows = <<>>
    /\ editor = [e \in Editors |-> NoEdit]
    /\ learning = "proposed" /\ versionFaults = 0
    /\ restored = 0 /\ overlapped = FALSE

Editing == {e \in Editors : editor[e].at \notin {"new", "done"}}

\* store.update_rule and reload(), and the content that get_rule() reads back at once.
Writes(e, content) ==
    /\ rule' = content
    /\ editor' = [editor EXCEPT ![e] = [at |-> "changed", content |-> content, latest |-> 0]]

Edits(e) ==
    /\ editor[e].at = "new"
    /\ \E content \in Drafts \ {rule} : Writes(e, content)
    /\ overlapped' = (overlapped \/ Editing # {})
    /\ restored' = 0
    /\ UNCHANGED <<rows, learning, versionFaults>>

\* rollback() applies what update_rule() knows of the stored content.  The detection is
\* stored under "conditions", which update_rule() passes over; a row of the learning loop
\* has the shadow flag alone.
Restored(row) ==
    IF row.by = "loop" THEN [rule EXCEPT !.shadow = row.content.shadow]
    ELSE [rule EXCEPT !.severity = row.content.severity, !.shadow = row.content.shadow]

RollsBack(e) ==
    /\ editor[e].at = "new" /\ rows # <<>>
    /\ \E i \in DOMAIN rows :
        /\ Writes(e, Restored(rows[i]))
        /\ restored' = IF rows[i].by = "loop" THEN 0 ELSE rows[i].number
    /\ overlapped' = (overlapped \/ Editing # {})
    /\ UNCHANGED <<rows, learning, versionFaults>>

\* save_version: the row with the greatest number, any of them if there are several.
Greatest == {i \in DOMAIN rows : \A j \in DOMAIN rows : rows[j].number <= rows[i].number}

ReadsVersions(e) ==
    /\ editor[e].at = "changed"
    /\ \E i \in (IF rows = <<>> THEN {0} ELSE Greatest) :
        editor' = [editor EXCEPT ![e].at = "saving", ![e].latest = i]
    /\ UNCHANGED <<rule, rows, learning, versionFaults, restored, overlapped>>

Retired(e) ==
    [i \in DOMAIN rows |-> IF i = editor[e].latest THEN [rows[i] EXCEPT !.active = FALSE] ELSE rows[i]]

NextNumber(e) == IF editor[e].latest = 0 THEN 1 ELSE rows[editor[e].latest].number + 1

SavesVersion(e) ==
    /\ editor[e].at = "saving"
    /\ rows' = Append(Retired(e),
          [number |-> NextNumber(e), content |-> editor[e].content, active |-> TRUE, by |-> "editor"])
    /\ editor' = [editor EXCEPT ![e] = [NoEdit EXCEPT !.at = "done"]]
    /\ UNCHANGED <<rule, learning, versionFaults, restored, overlapped>>

\* The commit fails, or the process ends: the file has changed, and no row tells of it.
VersionFails(e) ==
    /\ e \in Editing /\ versionFaults < MaxVersionFaults
    /\ versionFaults' = versionFaults + 1
    /\ editor' = [editor EXCEPT ![e] = [NoEdit EXCEPT !.at = "done"]]
    /\ UNCHANGED <<rule, rows, learning, restored, overlapped>>

\* _apply_shadow_rule: the flag, then a row with the number that a row has by default.
Shadows ==
    /\ learning = "proposed" /\ learning' = "shadowed"
    /\ rule' = [rule EXCEPT !.shadow = TRUE] /\ restored' = 0
    /\ UNCHANGED <<rows, editor, versionFaults, overlapped>>

AddsLoopRow ==
    /\ learning = "shadowed" /\ learning' = "applied"
    /\ rows' = Append(rows, [number |-> 1, content |-> [First EXCEPT !.shadow = TRUE],
                             active |-> TRUE, by |-> "loop"])
    /\ UNCHANGED <<rule, editor, versionFaults, restored, overlapped>>

\* rollback_action clears the flag, whatever it was before, and adds no row.
ClearsShadow ==
    /\ learning = "applied" /\ learning' = "rolled back"
    /\ rule' = [rule EXCEPT !.shadow = FALSE] /\ restored' = 0
    /\ UNCHANGED <<rows, editor, versionFaults, overlapped>>

VersionsNext ==
    \/ \E e \in Editors :
        \/ Edits(e) \/ RollsBack(e) \/ ReadsVersions(e) \/ SavesVersion(e) \/ VersionFails(e)
    \/ Shadows \/ AddsLoopRow \/ ClearsShadow

VersionsSpec == VersionsInit /\ [][VersionsNext]_versionVars
-----------------------------------------------------------------------------
(* Properties *)

VersionsTypeOK ==
    /\ rule \in Rules /\ versionFaults \in 0..MaxVersionFaults
    /\ rows \in Seq([number : Nat \ {0}, content : Rules, active : BOOLEAN, by : {"editor", "loop"}])
    /\ \A e \in Editors : editor[e].content \in Rules /\ editor[e].latest \in 0..Len(rows)

Untouched == learning = "proposed"

\* However edits overlap, once all versions are saved one of them is the rule that runs, so
\* that it can be returned to.  (Until the learning loop changes the rule, or a save fails.)
RuleIsOnRecord ==
    Editing = {} /\ Untouched /\ versionFaults = 0 /\ rule # First
        => \E i \in DOMAIN rows : rows[i].content = rule

\* Edits one after the other give their versions numbers that no other has, and exactly the
\* last is active.  (Overlapping ones read the same latest version, and the loop's row has
\* number 1 and stays active.)
NumbersIdentify ==
    ~overlapped /\ Untouched =>
        /\ \A i \in DOMAIN rows : rows[i].number = i
        /\ \A i \in DOMAIN rows : rows[i].active <=> i = Len(rows)

\* Right after a rollback to a number that one version has, the rule has the severity and the
\* shadow flag of that version.
RollbackRestores ==
    restored # 0 /\ Cardinality({i \in DOMAIN rows : rows[i].number = restored}) = 1 =>
        \A i \in DOMAIN rows : rows[i].number = restored =>
            rule.severity = rows[i].content.severity /\ rule.shadow = rows[i].content.shadow

\* Versions tell what ran, and lead back to it.
VersionsSound == VersionsTypeOK /\ RuleIsOnRecord /\ NumbersIdentify /\ RollbackRestores
=============================================================================
