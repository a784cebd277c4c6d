------------------------------ MODULE Charter ------------------------------
(***************************************************************************)
(* Policies as they are written (db/Policy.ts): a document of arms over    *)
(* the namespaces of a catalog, its compilation to the policy the peer     *)
(* evaluates, and the peer's own reading of that (core policy/ast.ts).     *)
(*                                                                         *)
(* A document is [principal: an attribute, classes, arms: <<[ns, rules,    *)
(* attrs: <<[attr, rules]>>, preset: <<[attr, operand]>>]>>], rules giving *)
(* a list of arms by op.  An arm is [is: "true"], [is: "frag", frag] or    *)
(* [is: "gate", classes, of: an arm of the other two].  A fragment is the  *)
(* name of a function of `me`; the same name is the same function.  Texts  *)
(* of names and of errors are left out: what is refused is not ok.         *)
(***************************************************************************)
EXTENDS Policies, Shapes

CONSTANT FragOf(_, _)   \* a fragment's name and me -> the kernel's fragments

Ops == <<"read", "add", "retract", "retractEntity", "create">>
Catalog == DOMAIN Attr \ SystemAttrs
Namespaces == {NsOf[a] : a \in Catalog}

NewCharter(doc) ==
  [ok |-> doc.principal \in Catalog /\ doc.classes # <<>> /\ IsInjective(doc.classes),
   classes |-> Range(doc.classes), named |-> <<>>, list |-> <<>>, arms |-> <<>>,
   ns |-> <<>>, attrs |-> <<>>, preset |-> <<>>, masked |-> {}]

(***************************************************************************)
(* Arms.                                                                   *)
(***************************************************************************)
\* unwrapGate: the classes an arm is for, {} for all, and what else it asks.
Ungated(arm) == IF arm.is = "true" THEN "true" ELSE arm.frag
UnwrapGate(arm) ==
  IF arm.is = "gate" THEN [fits |-> arm.classes # <<>>, classes |-> Range(arm.classes), body |-> Ungated(arm.of)]
  ELSE [fits |-> TRUE, classes |-> {}, body |-> Ungated(arm)]

\* A fragment is a named rule, the same one wherever it is used.
RuleName(i) == "policy/" \o ToString(i)
Naming(st, frag) ==
  IF frag = "true" \/ frag \in Range(st.named) THEN st ELSE [st EXCEPT !.named = Append(@, frag)]
NameOfFrag(st, frag) == RuleName(CHOOSE i \in DOMAIN st.named : st.named[i] = frag)

\* Mutant: an arm around a fragment is for every class.
CompileUngated(st, arm) ==
  LET gate == UnwrapGate(arm)
      named == Naming(st, gate.body)
  IN  [named EXCEPT !.ok = @ /\ gate.fits /\ gate.classes \subseteq st.classes,
                    !.list = Append(@, IF gate.body = "true" THEN [is |-> "rule", rule |-> "public", class |-> gate.classes]
                                       ELSE [is |-> "rule", rule |-> NameOfFrag(named, gate.body), class |-> {}])]
CompileArm(st, arm) ==
  LET gate == UnwrapGate(arm)
      named == Naming(st, gate.body)
      rule == IF gate.body = "true" THEN "public" ELSE NameOfFrag(named, gate.body)
  IN  [named EXCEPT !.ok = @ /\ gate.fits /\ gate.classes \subseteq st.classes,
                    !.list = Append(@, [is |-> "rule", rule |-> rule, class |-> gate.classes])]
\* compileSpec: an op without arms is as if it were not there.
CompileSpec(st, spec) ==
  LET Listed(s, op) == LET c == FoldLeft(CompileArm, [s EXCEPT !.list = <<>>], spec[op])
                       IN  [c EXCEPT !.arms = @ @@ (op :> c.list)]
      Next_(s, op) == IF op \notin DOMAIN spec \/ spec[op] = <<>> THEN s ELSE Listed(s, op)
  IN  FoldLeft(Next_, [st EXCEPT !.arms = <<>>], Ops)

(***************************************************************************)
(* policy(head, arms).                                                     *)
(***************************************************************************)
\* An attribute named twice has what was said of it last, but stays masked.
AddAttr(st, ns, own) ==
  LET c == CompileSpec(st, own.rules) IN
  [c EXCEPT !.ok = @ /\ own.attr \in Catalog /\ NsOf[own.attr] = ns,
            !.attrs = (own.attr :> c.arms) @@ @,
            !.masked = IF "read" \in DOMAIN c.arms THEN @ \cup {own.attr} ELSE @]
\* A preset is a claim or the principal.
AddPreset(st, ns, given) ==
  [st EXCEPT !.ok = @ /\ given.attr \in Catalog /\ NsOf[given.attr] = ns /\ given.operand.is # "lit",
             !.preset = (given.attr :> given.operand) @@ @]
AddNamespace(st, said) ==
  LET c == CompileSpec(st, said.rules)
      ruled == [c EXCEPT !.ok = @ /\ said.ns \in Namespaces, !.ns = (said.ns :> c.arms) @@ @]
      narrowed == FoldLeft(LAMBDA s, a : AddAttr(s, said.ns, a), ruled, said.attrs)
  IN  FoldLeft(LAMBDA s, p : AddPreset(s, said.ns, p), narrowed, said.preset)
Author(doc) == FoldLeft(AddNamespace, NewCharter(doc), doc.arms)

\* promote: a fragment is the body of a rule of me and the focus, and asks
\* something.
Promote(charter) ==
  LET Base(i) == 600 + 20 * i
      me(i) == V(Base(i), "value")
      focus(i) == V(Base(i) + 1, "value")
      Clauses(i) == Thread(FragOf(charter.named[i], me(i)), focus(i), Base(i) + 2).clauses
  IN  [i \in DOMAIN charter.named |-> [head |-> <<Base(i), Base(i) + 1>>, ret |-> 0, clauses |-> Clauses(i)]]
\* lowerNamedRules: a query that calls them all brings the rules they reach.
LowerNamedRules(promoted) ==
  LET names == [i \in DOMAIN promoted |-> RuleName(i)]
      rules == [n \in Range(names) |-> promoted[CHOOSE i \in DOMAIN names : names[i] = n]] @@ RuleOf
      calls == [i \in DOMAIN names |-> Apply(names[i], <<V(1, "value"), V(2, "value")>>, V(2 + i, "value"))]
  IN  LowerClauses(NameAll([Blankslate EXCEPT !.rules = rules], {2}), <<>>, calls, {2})

\* validateRuleBodies: the attributes of the rules are in the catalog.
RECURSIVE AttrsOf(_)
AttrsOf(clauses) ==
  UNION {IF c.is = "pattern" /\ c.args[2].is = "const" THEN {c.args[2].v}
         ELSE IF Nested(c) THEN UNION {AttrsOf(b) : b \in Range(c.branches)} ELSE {} : c \in Range(clauses)}
BodiesFit(defs) == \A def \in Range(defs) : AttrsOf(def.clauses) \subseteq DOMAIN Attr

(***************************************************************************)
(* compile: the policy as it is sent, and as the peer reads it.            *)
(***************************************************************************)
Flat(byKey) ==
  [x \in UNION {{<<k, op>> : op \in DOMAIN byKey[k]} : k \in DOMAIN byKey} |-> byKey[x[1]][x[2]]]
Lower(charter, principal, classes, defs) ==
  [version |-> 2, principal |-> principal, classes |-> classes, attrs |-> Flat(charter.attrs), ns |-> Flat(charter.ns),
   preset |-> charter.preset, rules |-> defs]

\* parseExpr: no more than three references deep.
MaxRefDepth == 3
RECURSIVE ExprFits(_, _, _)
ExprFits(expr, classes, depth) ==
  CASE expr.is = "const" -> expr.value \in BOOLEAN
    [] expr.is = "class" -> expr.class \in classes
    [] expr.is = "eq" -> TRUE
    [] expr.is = "ref" -> depth < MaxRefDepth /\ ExprFits(expr.exprs[1], classes, depth + 1)
    [] expr.is \in {"and", "or", "not"} ->
         expr.exprs # <<>> /\ \A i \in DOMAIN expr.exprs : ExprFits(expr.exprs[i], classes, depth)
\* A policy of version 1 has expressions for arms, one of version 2 rules it names.
ArmFits(wire, arm) ==
  LET names == {wire.rules[i].name : i \in DOMAIN wire.rules} IN
  IF wire.version = 1 THEN arm.is \in {"allow", "deny"} /\ ExprFits(arm.expr, Range(wire.classes), 0)
  ELSE arm.is = "rule" /\ arm.rule \in names \cup {"public"} /\ arm.class \subseteq Range(wire.classes)
ParsePolicy(wire) ==
  LET lists == Range(wire.attrs) \cup Range(wire.ns) IN
  [ok |-> /\ wire.version \in {1, 2}
          /\ wire.classes # <<>> /\ IsInjective(wire.classes)
          /\ wire.version = 1 => wire.rules = <<>>
          /\ {x[2] : x \in DOMAIN wire.attrs} \cup {x[2] : x \in DOMAIN wire.ns} \subseteq Range(Ops)
          /\ \A list \in lists : \A arm \in Range(list) : ArmFits(wire, arm),
   policy |-> wire]

Compile(doc) ==
  LET Asks(promoted) == \A i \in DOMAIN promoted : promoted[i].clauses # <<>>
      Sent(charter, low) ==
        IF charter.ok /\ low.ok /\ BodiesFit(low.defs)
        THEN ParsePolicy(Lower(charter, doc.principal, doc.classes, low.defs)) ELSE [ok |-> FALSE]
      Ruled(charter, promoted) ==
        IF Asks(promoted) THEN Sent(charter, LowerNamedRules(promoted)) ELSE [ok |-> FALSE]
      Authored(charter) == Ruled(charter, Promote(charter))
  IN  Authored(Author(doc))

\* checkPulls: what a mask may hide is optional, however deep.
RECURSIVE MaskFits(_, _)
\* Mutant: a default stands in for it.
MaskOrDefault(masked, shape) ==
  \A i \in DOMAIN shape : shape[i].a \in masked /\ shape[i].wrap = "required" => IsMany(shape[i])
MaskFits(masked, shape) ==
  \A i \in DOMAIN shape :
    LET f == shape[i] IN
    /\ f.a \in masked /\ f.wrap # "optional" => IsMany(f)
    /\ f.sub # <<>> => MaskFits(masked, f.sub)
CheckPulls(masked, shape) == MaskFits(masked, shape)
=============================================================================
