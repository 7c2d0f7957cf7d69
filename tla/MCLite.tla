------------------------------- MODULE MCLite -------------------------------
(***************************************************************************)
(* The programs on which TLC runs the Lite trace.  Each is small, and is   *)
(* chosen so that a move changes the part of the trace it is about.        *)
(***************************************************************************)
EXTENDS TraceProps

MCPrelude == << "bernoulli", "biplex", "make_csp", "mem", "make_beta_bernoulli",
                "make_uc_beta_bernoulli", "tag", "not" >>
Apply(kind, args) == App(<<Builtin(CHOOSE n \in Builtins : Prelude[n] = kind)>> \o args)
Call0(x)          == App(<<x>>)
Zero == Con(Num(0))
One  == Con(Num(1))
Flip == Apply("bernoulli", <<>>)
Lambda(params, body) == Apply("make_csp", <<Con(Quote(params, body))>>)
(* The macro expansion of (if p c a): the branches are thunks.             *)
If(p, c, a) == Call0(Apply("biplex", <<p, Lambda(<<>>, c), Lambda(<<>>, a)>>))

(* A conditional whose branches request different families.                *)
BranchProgram ==
  << Assume("x", Flip),
     Assume("y", If(Var("x"), Flip, Apply("not", <<Var("x")>>))),
     Observe(Apply("bernoulli", <<Var("y")>>), Num(1)) >>

(* A memoized procedure: applications share families while their           *)
(* arguments agree, which a move may change.                               *)
MemProgram ==
  << Assume("f", Apply("mem", <<Lambda(<<"x">>, Flip)>>)),
     Assume("y", Flip),
     Predict(App(<<Var("f"), Var("y")>>)),
     Predict(App(<<Var("f"), Zero>>)) >>

(* A collapsed coin whose pseudocounts a move changes: its applications    *)
(* are summed up in its statistics, which outlive it (AAA).                *)
CoinProgram ==
  << Assume("x", Flip),
     Assume("f", Apply("make_beta_bernoulli", <<Var("x")>>)),
     Predict(Call0(Var("f"))),
     Observe(Call0(Var("f")), Num(1)) >>

(* An uncollapsed coin applied through a reference that a move may switch  *)
(* (a stale AAA procedure).                                                *)
StaleProgram ==
  << Assume("x", Flip),
     Assume("f", Apply("make_uc_beta_bernoulli", <<Var("x")>>)),
     Observe(Call0(Apply("biplex", <<Var("x"), Var("f"), Builtin(1)>>)), Num(1)) >>

(* The same reference, applied nowhere: it ends on the border.  In no run: *)
(* as Directives of MCConstraints.cfg it breaks NoAssertionFails.          *)
ReferenceProgram ==
  << Assume("x", Flip),
     Assume("f", Apply("make_uc_beta_bernoulli", <<Zero>>)),
     Predict(Apply("biplex", <<Var("x"), Var("f"), Builtin(1)>>)) >>

(* A choice tagged with a block that is itself random, and a tag within it *)
(* that takes a choice out of that block.                                  *)
TagProgram ==
  << Assume("y", Flip),
     Assume("x", Apply("tag", <<Zero, Var("y"), Apply("bernoulli", <<Apply("tag", <<Zero, One, Flip>>)>>)>>)),
     Observe(Apply("bernoulli", <<Var("x")>>), Num(1)) >>

(* An observation that reaches its choice through a conditional on a       *)
(* memoized choice, with a lookup of the constrained choice downstream.    *)
SwitchProgram ==
  << Assume("x", Flip),
     Assume("y", Flip),
     Assume("f", Flip),
     Predict(Var("x")),
     Observe(If(Var("f"), Var("x"), Var("y")), Num(1)) >>

(* The same with deterministic processing of the choice downstream:        *)
(* checkConstrainAVar4c of test/conformance/test_constrain.py.  In no run: *)
(* as Directives of MCConstraints.cfg, with "z" in Syms, it breaks         *)
(* Coherent.                                                               *)
DownstreamProgram ==
  << Assume("x", Flip),
     Assume("y", Flip),
     Assume("f", Flip),
     Assume("z", Apply("not", <<Var("x")>>)),
     Predict(Var("z")),
     Observe(If(Var("f"), Var("x"), Var("y")), Num(1)) >>

(* Forgetting and freezing between moves, as a particle filter does.       *)
ForgetProgram ==
  << Assume("x", Flip),
     Assume("f", Apply("mem", <<Lambda(<<>>, Flip)>>)),
     Predict(Call0(Var("f"))),
     Observe(Apply("bernoulli", <<Call0(Var("f"))>>), Num(1)),
     Assume("y", Var("x")),
     Freeze(1), Forget(4), Forget(3), Predict(Flip) >>

(* Two observations of the same choice, which the user is told.            *)
TwiceProgram == << Assume("x", Flip), Observe(Var("x"), Num(1)), Observe(Var("x"), Num(1)), Predict(Flip) >>

-----------------------------------------------------------------------------
(* Sessions: one program after another, each forgotten before the next.    *)
Forgotten(first, program) ==
  [i \in DOMAIN program |-> Forget(first + Len(program) - i)]
AndThen(session, program) ==
  session \o program \o Forgotten(Len(session) + 1, program)

StructureSession ==
  AndThen(AndThen(AndThen(<<>>, CoinProgram), TagProgram), BranchProgram) \o MemProgram
ConstraintSession ==
  AndThen(AndThen(ForgetProgram \o <<Forget(9), Forget(5), Forget(2), Forget(1)>>, StaleProgram),
          SwitchProgram) \o TwiceProgram
=============================================================================
