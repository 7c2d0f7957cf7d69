--------------------------- MODULE MCExchangeable ---------------------------
(* Two applications with drawn indices, one with a constant one.           *)
EXTENDS Exchangeable, TLC

MCFixed == [a \in App |-> IF a = "c" THEN 1 ELSE None]
MCWhole == <<2, 4>>

(* In no run: as Alpha of MCExchangeable.cfg it breaks Normalized.         *)
MCHalf  == <<1, 1>>

(* One value or index alone, as (mh default one) moves them, or the draws  *)
(* of all the indices.                                                     *)
Alone    == {a :> kind : a \in App, kind \in {"output", "operand"}}
Operands == [a \in {"a", "b"} |-> "operand"]
Both     == [a \in {"a", "b"} |-> "both"]
MCBlocks == Alone \cup {Operands, Both}

(* What is assumed where hidden states are proved to follow (Unmixed).     *)
ASSUME BlocksUnmixed ==
  \A b \in MCBlocks : (\A a \in DOMAIN b : b[a] = "output") \/ (\A a \in DOMAIN b : b[a] # "output")

(* All choices at once, as (mh default all) moves them.                    *)
MCAll    == {[a \in App |-> IF a = "c" THEN "output" ELSE "both"]}
=============================================================================
