----------------------------- MODULE PipelinesMC -----------------------------
(* Pipelines for TLC: the bytes of the file and what they are encrypted to. *)
EXTENDS Pipelines

FileAndCipher == 0 .. 30

(* The failures krypt ends well with. *)
LateFailures == {"krypt_encrypt: palloc", "krypt_write: open", "krypt_write: palloc"}
=============================================================================
