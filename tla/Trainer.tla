------------------------------ MODULE Trainer ------------------------------
(* What a training program on the rented box requires of the files beside it *)
(* and of the directory of base weights.                                     *)

CONSTANTS
  Absent,  \* no such file, no such key
  Torn,    \* a file that a copy or a kill has cut
  Dequant, Fp16  \* BASE_SCHEME_DEQUANT, BASE_SCHEME_FP16

ASSUME SchemesAssumption == Dequant # Fp16 /\ Absent \notin {Dequant, Fp16}

IsWhole(file) == file \notin {Absent, Torn}

ReceiptIsThere(box) == IsWhole(box.data) /\ IsWhole(box.receipt)
ReceiptHolds(box) ==
  /\ IsWhole(box.data) /\ IsWhole(box.receipt)
  /\ box.receipt.data = box.data

SchemeOf(config) == IF config.scheme = Absent THEN Fp16 ELSE config.scheme

\* A directory that was dequantized has a manifest; its source is compared if
\* the configuration names one.
BaseFits(config, base) ==
  IF SchemeOf(config) = Dequant
  THEN base.scheme = Dequant /\ config.source \in {Absent, base.source}
  ELSE base.scheme # Dequant
=============================================================================
