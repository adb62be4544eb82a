-------------------------------- MODULE LintSQL --------------------------------
(***************************************************************************)
(* scripts/lint-sql: a file is edited, and linted against a baseline of    *)
(* findings that a reviewer accepted.                                      *)
(*                                                                         *)
(* An expression is its kind and its parts: for a chain of + the leaves,   *)
(* for fmt.Sprint* the arguments.  "lit" is a string literal, a name       *)
(* stands for what the file declares, anything else is a value of run      *)
(* time.  The linter sees a call's arguments in order, of which the one    *)
(* in place of the query (and no other) is SQL.                            *)
(***************************************************************************)
EXTENDS Naturals, Sequences, SequencesExt

CONSTANTS
    DeclChoices,    \* the package-level declarations: sequences of [name, value]
    Sites, Line, Function,      \* the calls in functions, where they are
    CallChoices,    \* what is called: [method, query, values]
    CommentLines    \* lines that may have a sqllint:allow

Expressions == [kind : STRING, parts : Seq(STRING)]
Declarations == [name : STRING, value : Expressions]
MethodCalls == [method : STRING, query : Expressions, values : Seq(Expressions)]

dbMethods == {"Exec", "ExecContext"}

ASSUME LintAssumption ==
    /\ \A d \in DeclChoices : d \in Seq(Declarations)
    /\ \A c \in CallChoices : c \in MethodCalls
    /\ \E c \in CallChoices : c.method \notin dbMethods

VARIABLES
    parses, decls, calls, allows,   \* the file
    baseline,                       \* identities in baseline.txt
    verdict     \* of the last run, if the file is as it was: "none", "ok", "new"

lintVars == <<parses, decls, calls, allows, baseline, verdict>>

Context == [kind |-> "name", parts |-> <<"ctx">>]

LintTypeOK ==
    /\ parses \in BOOLEAN /\ verdict \in {"none", "ok", "new"}
    /\ decls \in Seq(Declarations) /\ calls \in [Sites -> MethodCalls]
    /\ allows \subseteq CommentLines

LintInit ==
    /\ parses = TRUE
    /\ decls = <<>> /\ allows = {}
    /\ calls = [s \in Sites |-> CHOOSE c \in CallChoices : c.method \notin dbMethods]
    /\ baseline = {} /\ verdict = "none"

(***************************************************************************)
(* scanFile.                                                               *)
(***************************************************************************)
\* (A fault: a chain that begins with a literal.)
BeginsStatic(e, statics) ==
    e.kind \in {"lit", "name", "concat"} /\ Head(e.parts) \in {"lit"} \cup statics

\* isStaticString, pureLiteralConcat: every leaf is a literal or a static name.
IsStatic(e, statics) ==
    e.kind \in {"lit", "name", "concat"} /\ ToSet(e.parts) \subseteq {"lit"} \cup statics

\* The names found static in the first n declarations, one after the other.
Known[n \in 0 .. Len(decls)] ==
    IF n = 0 THEN {}
    ELSE Known[n - 1] \cup (IF IsStatic(decls[n].value, Known[n - 1]) THEN {decls[n].name} ELSE {})

StaticStrs == Known[Len(decls)]

\* A comment suppresses its own line and the next.
Suppressed(line) == line \in allows \/ line - 1 \in allows

IsLikelyString(e) == e.kind \in {"lit", "concat", "sprint"}

\* The argument that is taken for the query: the first that looks like a string.
Args(c) == <<Context, c.query>> \o c.values
Likely(c) == {i \in DOMAIN Args(c) : IsLikelyString(Args(c)[i])}
SqlArg(c) == Args(c)[Min(Likely(c))]

Bad(e) == e.kind = "sprint" \/ (e.kind = "concat" /\ ~ IsStatic(e, StaticStrs))

\* finding.id, of the one file: function, method and reason.
Id(s) == <<Function[s], calls[s].method, SqlArg(calls[s]).kind>>

Found(s) ==
    /\ parses
    /\ calls[s].method \in dbMethods
    /\ Likely(calls[s]) # {}
    /\ ~ Suppressed(Line[s])
    /\ Bad(SqlArg(calls[s]))

Findings == {Id(s) : s \in {t \in Sites : Found(t)}}

(***************************************************************************)
(* Reference: what a query is, whatever the order of the declarations.     *)
(***************************************************************************)
Closed(S) == \A d \in ToSet(decls) : IsStatic(d.value, S) => d.name \in S
Constants ==
    CHOOSE S \in SUBSET {d.name : d \in ToSet(decls)} :
        Closed(S) /\ \A T \in SUBSET S : Closed(T) => T = S

\* The query is put together in the call, from something only known at run time.
BuiltAtRunTime(s) ==
    /\ calls[s].method \in dbMethods
    /\ calls[s].query.kind \in {"concat", "sprint"}
    /\ ~ ToSet(calls[s].query.parts) \subseteq {"lit"} \cup Constants

\* Nothing in the call is put together from anything but constants.
Harmless(s) ==
    \A e \in ToSet(<<calls[s].query>> \o calls[s].values) :
        e.kind # "sprint" /\ (e.kind = "concat" => ToSet(e.parts) \subseteq {"lit"} \cup Constants)

\* Every name is declared before it is used.
InOrder ==
    \A i, j \in DOMAIN decls : i <= j => decls[j].name \notin ToSet(decls[i].value.parts)

(***************************************************************************)
(* The developer and main.                                                 *)
(***************************************************************************)
Edit ==
    /\ \/ \E d \in DeclChoices : decls' = d /\ UNCHANGED <<parses, calls, allows>>
       \/ \E s \in Sites, c \in CallChoices :
             calls' = [calls EXCEPT ![s] = c] /\ UNCHANGED <<parses, decls, allows>>
       \/ \E l \in CommentLines :
             allows' = SymDiff(allows, {l}) /\ UNCHANGED <<parses, decls, calls>>
       \/ parses' = ~ parses /\ UNCHANGED <<decls, calls, allows>>
    /\ verdict' = "none"
    /\ UNCHANGED baseline

Lint ==
    /\ verdict' = IF Findings \subseteq baseline THEN "ok" ELSE "new"
    /\ UNCHANGED <<parses, decls, calls, allows, baseline>>

\* -update-baseline, after a review: the file is written anew.
UpdateBaseline ==
    /\ baseline' = Findings
    /\ verdict' = "none"
    /\ UNCHANGED <<parses, decls, calls, allows>>

LintNext == Edit \/ Lint \/ UpdateBaseline

LintSpec == LintInit /\ [][LintNext]_lintVars

(***************************************************************************)
(* Properties.                                                             *)
(***************************************************************************)
\* A file that passes has no query put together at run time in the call, but where
\* a comment allows it or a review accepted one of the same function, method and
\* kind (main.go:1-18, 127-132); and one whose strings are constants, declared
\* before their use, passes (main.go:198-204).
LintJudges ==
    parses =>
        /\ verdict = "ok" => \A s \in Sites :
              BuiltAtRunTime(s) => Suppressed(Line[s]) \/ Id(s) \in baseline
        /\ verdict = "new" /\ InOrder => \E s \in Sites : ~ Harmless(s)
=============================================================================
