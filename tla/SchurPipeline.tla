---------------------------- MODULE SchurPipeline ----------------------------
(***************************************************************************)
(* The drivers around the QR iteration: real_schur_in_place,               *)
(* complex_schur_in_place and real_eigenvalues_in_place (schur/src), and   *)
(* schur_pipeline and schur_c64_pipeline (bench/src/lib.rs).  One matrix h *)
(* is in turn the input, a Hessenberg matrix with the reflectors stored    *)
(* below it, a Hessenberg matrix, the workspace of the iteration, and T;   *)
(* z must be given the two halves of one transformation.                   *)
(*                                                                         *)
(* The stages are taken whole: what the kernels among them do is the       *)
(* subject of Reflectors, HqrDriver and ChqrDriver, what faer does is      *)
(* external.  Of h is kept what each cell holds.                           *)
(***************************************************************************)
EXTENDS Integers

CONSTANTS
  MaxOrder,    \* largest order considered
  Crossover,   \* WASM_LAHQR_CROSSOVER, and the order at which bench routes
  Nmin         \* faer's default blocking_threshold

ASSUME MaxOrderAssumption == MaxOrder \in Nat
ASSUME ThresholdAssumption == Crossover \in Nat /\ Nmin \in Nat

VARIABLES
  entry,    \* the function called
  wasm,     \* cfg(target_arch = "wasm32")
  order, want_t, want_z,
  finite,   \* the input has no NaN or infinity
  stage,
  h,        \* what each cell of the matrix holds
  z,        \* what the second matrix holds
  w         \* what the eigenvalue vectors hold

request == <<entry, wasm, order, want_t, want_z, finite>>
pipeline == <<request, stage, h, z, w>>

Crate == {"real_schur", "complex_schur", "real_eigenvalues"}
Bench == {"schur_pipeline", "schur_c64_pipeline"}
Real == {"real_schur", "real_eigenvalues", "schur_pipeline"}

Cells == (0..order-1) \X (0..order-1)
Upper == {x \in Cells : x[1] <= x[2]}
Subdiagonal == {x \in Cells : x[1] = x[2] + 1}
Below == {x \in Cells : x[1] >= x[2] + 2}

PipelineInit ==
  /\ entry \in Crate \union Bench
  /\ wasm \in BOOLEAN /\ order \in 0..MaxOrder /\ finite \in BOOLEAN
  /\ want_t \in BOOLEAN /\ want_z \in BOOLEAN
  /\ entry \in {"real_schur", "complex_schur"} => want_t
  /\ entry = "real_eigenvalues" => ~want_t /\ ~want_z
  /\ entry \in Bench => finite
  /\ stage = IF entry \in Crate THEN "validate" ELSE "reduce"
  /\ h = [x \in Cells |-> "input"]
  /\ z = "given"
  /\ w = "given"

(* A NaN or an infinity is refused before anything is written. *)
Refuse ==
  /\ stage = "validate"
  /\ ~finite
  /\ stage' = "NonFinite"
  /\ UNCHANGED <<request, h, z, w>>

SeedZ ==
  /\ stage = "validate"
  /\ finite
  /\ stage' = "size"
  /\ z' = IF want_z THEN "identity" ELSE z
  /\ UNCHANGED <<request, h, w>>

(* Orders 0 and 1: the matrix is its own Schur form. *)
SmallOrder ==
  /\ stage = "size"
  /\ order <= 1
  /\ stage' = "Ok"
  /\ w' = "eigenvalues"
  /\ UNCHANGED <<request, h, z>>

ReduceOrder ==
  /\ stage = "size"
  /\ order > 1
  /\ stage' = "reduce"
  /\ UNCHANGED <<request, h, z, w>>

Hessenberg_ClearedAtOnce ==
  /\ stage = "reduce"
  /\ stage' = "form_q"
  /\ h' = [x \in Cells |-> IF x \in Below THEN "zero" ELSE "hessenberg"]
  /\ UNCHANGED <<request, z, w>>

(* The Hessenberg reduction leaves its reflectors below the subdiagonal. *)
Hessenberg ==
  /\ stage = "reduce"
  /\ stage' = "form_q"
  /\ h' = [x \in Cells |-> IF x \in Below THEN "reflector" ELSE "hessenberg"]
  /\ UNCHANGED <<request, z, w>>

(***************************************************************************)
(* Q from the stored reflectors: the crate applies them to z, which must   *)
(* be the identity, the bench kernel starts from an identity of its own.   *)
(***************************************************************************)
ReflectorsStored == \A x \in Below : h[x] = "reflector"

FormQ ==
  /\ stage = "form_q"
  /\ stage' = "clear"
  /\ z' = IF ~want_z THEN z
          ELSE IF ReflectorsStored /\ (entry \in Crate => z = "identity") THEN "Q"
          ELSE "wrong"
  /\ UNCHANGED <<request, h, w>>

Cleared(S) == [x \in Cells |-> IF x \in S THEN "zero" ELSE h[x]]

Clear ==
  /\ stage = "clear"
  /\ stage' = "iterate"
  /\ h' = Cleared(Below)
  /\ UNCHANGED <<request, z, w>>

(***************************************************************************)
(* recommended_params: on wasm the blocked iteration is switched off below *)
(* the crossover; bench has kernels of its own there.                      *)
(***************************************************************************)
Kernel == entry \in Bench /\ order < Crossover
Unblocked == wasm /\ order < Crossover
Blocked == ~Kernel /\ ~Unblocked /\ order >= Nmin

(***************************************************************************)
(* The iteration reads the whole Hessenberg matrix; anything else in it is *)
(* taken for entries.  It maintains h as T only on request, and z whenever *)
(* it is given.  faer's blocked path uses the cells below the subdiagonal  *)
(* as workspace; its complex iteration leaves negligible subdiagonals.     *)
(***************************************************************************)
HessenbergRead ==
  \A x \in Cells : h[x] = IF x \in Below THEN "zero" ELSE "hessenberg"

Iterated(junk) ==
  [x \in Cells |->
     CASE x \in junk -> "workspace"
       [] x \in Below \ junk -> h[x]
       [] x \in Subdiagonal /\ entry \notin Real -> IF Kernel THEN "zero" ELSE "deflated"
       [] OTHER -> IF want_t /\ HessenbergRead THEN "T" ELSE "wrong"]

Converge ==
  /\ stage = "iterate"
  /\ stage' = "clean_up"
  /\ \E junk \in IF Blocked THEN SUBSET Below ELSE {{}} : h' = Iterated(junk)
  /\ z' = IF ~want_z THEN z
          ELSE IF z = "Q" /\ HessenbergRead THEN "Z" ELSE "wrong"
  /\ w' = IF HessenbergRead THEN "eigenvalues" ELSE "wrong"
  /\ UNCHANGED request

(***************************************************************************)
(* info # 0: the crate returns an error, bench asserts.  By then the       *)
(* iteration has written to h, and to z and w: how far it came, and what   *)
(* it used as workspace, is not told, and nothing is cleaned up.           *)
(***************************************************************************)
NoConvergence ==
  /\ stage = "iterate"
  /\ order > 1
  /\ stage' = IF entry \in Crate THEN "NoConvergence" ELSE "panic"
  /\ \E junk \in IF Blocked THEN SUBSET Below ELSE {{}} :
       h' = [x \in Cells |-> IF x \in junk THEN "workspace"
                             ELSE IF x \in Below THEN h[x] ELSE "unfinished"]
  /\ z' = IF want_z THEN "unfinished" ELSE z
  /\ w' = "unfinished"
  /\ UNCHANGED request

Leftover_AsReal ==
  IF entry = "real_eigenvalues" \/ ~want_t \/ Kernel THEN {} ELSE Below

(***************************************************************************)
(* What the iteration leaves below T is cleared: the crate clears all that *)
(* is not T, bench what lies below the subdiagonal, and only after faer's  *)
(* iteration.                                                              *)
(***************************************************************************)
Leftover ==
  CASE entry = "real_eigenvalues" \/ ~want_t \/ Kernel -> {}
    [] entry = "complex_schur" -> Below \union Subdiagonal
    [] OTHER -> Below

CleanUp ==
  /\ stage = "clean_up"
  /\ stage' = "Ok"
  /\ h' = Cleared(Leftover)
  /\ UNCHANGED <<request, z, w>>

Returned == stage \in {"Ok", "NonFinite", "NoConvergence", "panic"}

PipelineDone == Returned /\ UNCHANGED pipeline

PipelineNext ==
  \/ Refuse \/ SeedZ \/ SmallOrder \/ ReduceOrder
  \/ Hessenberg \/ FormQ \/ Clear
  \/ Converge \/ NoConvergence \/ CleanUp
  \/ PipelineDone

PipelineSpec == PipelineInit /\ [][PipelineNext]_pipeline

-----------------------------------------------------------------------------
Holds == {"input", "hessenberg", "reflector", "zero", "workspace", "deflated", "T",
          "unfinished", "wrong"}

(* Every variable stays in its range. *)
PipelineTypeOK ==
  /\ entry \in Crate \union Bench
  /\ wasm \in BOOLEAN /\ finite \in BOOLEAN /\ want_t \in BOOLEAN /\ want_z \in BOOLEAN
  /\ order \in 0..MaxOrder
  /\ stage \in {"validate", "size", "reduce", "form_q", "clear", "iterate", "clean_up",
             "Ok", "NonFinite", "NoConvergence", "panic"}
  /\ h \in [Cells -> Holds]
  /\ z \in {"given", "identity", "Q", "Z", "unfinished", "wrong"}
  /\ w \in {"given", "eigenvalues", "unfinished", "wrong"}

(***************************************************************************)
(* What is returned as T is T: no reflector of the reduction and nothing   *)
(* of the iteration's workspace is left where a reader of the form looks,  *)
(* on every route.  The complex crate returns exact zeros below the        *)
(* diagonal, bench may keep negligible subdiagonals, which the complex     *)
(* eigenvector kernel does not read.                                       *)
(***************************************************************************)
NoLeftoverInT ==
  stage = "Ok" /\ want_t /\ order > 1 =>
    /\ \A x \in Upper : h[x] = "T"
    /\ \A x \in Below : h[x] = "zero"
    /\ \A x \in Subdiagonal :
         IF entry \in Real THEN h[x] = "T"
         ELSE h[x] = "zero" \/ (entry \in Bench /\ h[x] = "deflated")

(***************************************************************************)
(* Schur vectors and eigenvalues belong to the input, with and without T:  *)
(* the vectors contain both halves of the transformation (run_schur_k_mode *)
(* 2 forms them without T), the Q of the reduction, formed while its       *)
(* reflectors are stored, and the iteration; and the iteration never takes *)
(* a stored reflector for an entry.  An input with a NaN or an infinity is *)
(* refused before the caller's matrix, vectors and eigenvalues are touched.*)
(***************************************************************************)
OutputsOfInput ==
  /\ stage = "Ok" /\ want_z => z = "Z" \/ (entry \in Crate /\ order <= 1 /\ z = "identity")
  /\ stage = "Ok" => w = "eigenvalues"
  /\ stage = "NonFinite" => z = "given" /\ w = "given" /\ \A x \in Cells : h[x] = "input"

=============================================================================
