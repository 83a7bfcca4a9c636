--------------------------- MODULE MCUploadStore ---------------------------
(***************************************************************************)
(* A small instance of UploadStore: which envelopes the run sends.         *)
(***************************************************************************)
EXTENDS UploadStore, TLC

CONSTANTS k1, k2, b1, b2, b3, b4, t1, t2

Env(k, m, t) == [key |-> k, model |-> m, thumb |-> t]

\* One key has three models to upload; the other uploads one of those with
\* another thumbnail, and one of its own.
SharedUploads == {Env(k1, b1, t1), Env(k1, b2, t1), Env(k1, b3, t1),
                  Env(k2, b1, t2), Env(k2, b4, t2)}

Sizes == [b \in Blobs |-> IF b \in {t1, t2} THEN 1 ELSE 2]

WorkerSymmetry == Permutations(Workers)
=============================================================================
