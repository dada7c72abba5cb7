------------------------------ MODULE PlanRules ------------------------------
(***************************************************************************)
(* Search-and-replace plans for one file: how worker_v2 validates them,    *)
(* what it lets them do to the tests in the file, and how it applies them. *)
(*                                                                         *)
(* The text of a file is a sequence of pieces: a piece is one top-level    *)
(* definition, or one stretch of anything else.  `test` is the name of a   *)
(* pytest function, "" when the piece is none; `body` is what it says:     *)
(* "kept" as the repository has it, anything else when it was written by   *)
(* the worker, "+" for a stray diff marker, "!" for text that does not     *)
(* parse.                                                                  *)
(***************************************************************************)
EXTENDS Naturals, FiniteSets, SequencesExt

Piece(test, body) == [test |-> test, body |-> body]
Code(body) == Piece("", body)
Marker == Code("+")
Broken == Code("!")

(* A plan is what a model, or a deterministic builder, proposes.  `shape`: *)
(* "none"    no change;                                                    *)
(* "count"   not exactly one change;                                       *)
(* "fields"  old or new missing or not text;                               *)
(* "foreign" another file, a protected one, or no change object at all;    *)
(* "edit"    replace `old` by `new`; `big` when either is over its limit;  *)
(* "raised"  no plan at all: the model, or reading its answer, failed.     *)
Plan(shape, old, new, big) == [shape |-> shape, old |-> old, new |-> new, big |-> big]
NoChange == Plan("none", <<>>, <<>>, FALSE)
Refused == Plan("foreign", <<>>, <<>>, FALSE)
Raised  == Plan("raised", <<>>, <<>>, FALSE)
Edit(old, new) == Plan("edit", old, new, FALSE)

-----------------------------------------------------------------------------
(* Text                                                                    *)

Starts(text, old) ==
  {i \in 1 .. Len(text) + 1 - Len(old) : SubSeq(text, i, i + Len(old) - 1) = old}

\* str.count(old) = 1: whatever else matches overlaps the first match.
Unique(text, old) ==
  /\ old # <<>> /\ Starts(text, old) # {}
  /\ LET first == CHOOSE i \in Starts(text, old) : \A j \in Starts(text, old) : i <= j
     IN  \A j \in Starts(text, old) : j < first + Len(old)

\* str.replace(old, new, 1), where old occurs.
Replaced(text, old, new) ==
  LET first == CHOOSE i \in Starts(text, old) : \A j \in Starts(text, old) : i <= j
  IN  SubSeq(text, 1, first - 1) \o new \o SubSeq(text, first + Len(old), Len(text))

Parses(text) == Broken \notin ToSet(text)

TestPieces(text) == SelectSeq(text, LAMBDA p : p.test # "")
TestNames(text)  == {p.test : p \in ToSet(TestPieces(text))}

\* The definition of a name that counts is the last one.
BodyOf(text, name) ==
  LET at == {i \in DOMAIN text : text[i].test = name}
  IN  text[CHOOSE i \in at : \A j \in at : j <= i].body

KeepsTests(before, after) ==
  \A name \in TestNames(before) :
    name \in TestNames(after) /\ BodyOf(after, name) = BodyOf(before, name)

-----------------------------------------------------------------------------
(* validate_plan                                                           *)

\* Mutant: a test only has to be there still.
NamesUnchanged(text, plan) ==
  Unique(text, plan.old) =>
    LET after == Replaced(text, plan.old, plan.new)
    IN  Parses(text) /\ Parses(after) /\ TestNames(text) \subseteq TestNames(after)

\* An anchor that is missing or ambiguous is left to apply_plan.
TestDefinitionsUnchanged(text, plan) ==
  Unique(text, plan.old) =>
    LET after == Replaced(text, plan.old, plan.new)
    IN  Parses(text) /\ Parses(after) /\ KeepsTests(text, after)

Verdict(plan, text, isTest) ==
  CASE plan.shape = "raised"  -> "raised"
    [] plan.shape = "none"    -> "no_change"
    [] plan.shape = "count"   -> "invalid_change_count"
    [] plan.shape = "foreign" -> "refused"
    [] plan.shape = "fields"  -> "invalid_old_new"
    [] OTHER ->
       IF plan.old = plan.new THEN "refused"
       ELSE IF isTest /\ ~TestDefinitionsUnchanged(text, plan) THEN "existing_test_modified"
       ELSE IF Marker \in ToSet(plan.new) THEN "diff_marker_in_replacement"
       ELSE IF plan.big THEN "change_too_large"
       ELSE "ok"

Valid(verdict) == verdict \in {"ok", "no_change"}

\* _adds_exactly_one_test: one test more, every one that was there unaltered.
AddsOneTest(plan, text) ==
  /\ plan.shape = "edit" /\ Unique(text, plan.old)
  /\ LET before == TestPieces(text)
         after  == TestPieces(Replaced(text, plan.old, plan.new))
         times(s, p) == Cardinality({i \in DOMAIN s : s[i] = p})
     IN  /\ Parses(text) /\ Parses(Replaced(text, plan.old, plan.new))
         /\ Len(after) = Len(before) + 1
         /\ \A p \in ToSet(before) : times(before, p) <= times(after, p)

\* A plan that appends pieces behind the shortest end of the text that is unique.
\* (The builders refuse when that end, or the whole, is over the limits.)
AppendPlan(text, pieces) ==
  LET ends == {k \in 1 .. Len(text) : Unique(text, SubSeq(text, k, Len(text)))}
      k    == CHOOSE e \in ends : \A d \in ends : d <= e
      old  == SubSeq(text, k, Len(text))
  IN  IF ends = {} THEN Refused ELSE Edit(old, old \o pieces)

NewTests(text, after) == SelectSeq(TestPieces(after), LAMBDA p : p.test \notin TestNames(text))

\* _salvage_additive_test_plan: the one new test of a rejected rewrite, appended.
\* "foreign" when there is none.
Salvage(plan, text) ==
  LET after == Replaced(text, plan.old, plan.new)
      tests == TestPieces(after)
      new   == NewTests(text, after)
  IN  IF plan.shape # "edit" \/ ~Unique(text, plan.old) THEN Refused
      ELSE IF ~Parses(text) \/ ~Parses(after) THEN Refused
      ELSE IF ~(TestNames(text) \subseteq TestNames(after)) \/ Len(new) # 1
              \/ Cardinality(TestNames(after)) # Len(tests) THEN Refused
      ELSE LET salvaged == AppendPlan(text, new)
           IN  IF Verdict(salvaged, text, TRUE) = "ok" /\ AddsOneTest(salvaged, text)
               THEN salvaged ELSE Refused

\* build_append_only_test_plan around the one function a model wrote.
AppendOnlyPlan(piece, text) ==
  LET plan == AppendPlan(text, <<piece>>)
  IN  IF piece.test = "" \/ piece.test \in TestNames(text) \/ ~Parses(text)
         \/ ~AddsOneTest(plan, text) \/ Verdict(plan, text, TRUE) # "ok"
      THEN Refused ELSE plan

-----------------------------------------------------------------------------
(* Deterministic plans                                                     *)

\* _explicit_comment_plan and build_comment_test_plan: a comment behind the
\* anchor line, or behind the first line where there is none.
CommentPlan(text, comment, anchor) ==
  IF comment \in ToSet(text) THEN NoChange
  ELSE IF anchor \in ToSet(text) THEN Edit(<<anchor>>, <<anchor, comment>>)
  ELSE Edit(<<text[1]>>, <<text[1], comment>>)

\* _deterministic_operational_validation_plan: one test before a known one.
InsertBefore(text, name, anchor) ==
  IF name \in TestNames(text) THEN NoChange
  ELSE LET old == SelectSeq(text, LAMBDA p : p.test = anchor)
       IN  IF Len(old) # 1 THEN Refused
           ELSE Edit(old, <<Piece(name, "new")>> \o old)
=============================================================================
