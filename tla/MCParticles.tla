---------------------------- MODULE MCParticles ----------------------------
(***************************************************************************)
(* A program whose torus makes coinB, draws x of it, tags x by its value,  *)
(* puts w back, requests a family of the memoised procedure of coinA and   *)
(* observes it.  The prelude has requested a family already: particles     *)
(* find its family, or make the other, and may constrain a choice of the   *)
(* trace.  The coda has a flip of coinC, which the torus makes, too.       *)
(***************************************************************************)
EXTENDS ParticleProps

MCOp   == [c \in Choice |-> CASE c = "x" \/ c = "w" -> "coinB" [] c = "f" -> "coinC" [] OTHER -> "coinA"]
MCRoot == [i \in Id |-> IF i = "k" THEN "y" ELSE "z"]

MCPrelude == <<Make("coinA"), Make("memo"), Request("u", "memo")>>
MCGroup1  == <<Make("coinC"), Make("coinB"), Draw("x"), Tag("s", "x", "x"), Absorb("w")>>
MCGroup2  == <<Request("o", "memo"), Observe("o", "tails")>>

MCCoda    == <<Draw("f"), Tag("s", "w", "w")>>

MCProgram == MCPrelude \o MCGroup1 \o MCGroup2 \o MCCoda
MCFirst   == Len(MCPrelude)
MCEnds    == <<Len(MCPrelude \o MCGroup1), Len(MCPrelude \o MCGroup1 \o MCGroup2)>>
=============================================================================
