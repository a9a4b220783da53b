--------------------------- MODULE MCInterceptFlow ---------------------------
(***************************************************************************)
(* TLC instances of InterceptFlow.  Three sequence numbers tell apart a    *)
(* number, its successor and a wrong one, and make the successor wrap.     *)
(***************************************************************************)
EXTENDS InterceptFlow

MCSeqMod == 3

\* The run allows every answer of the trait; tls_record_frag's are among them.
ASSUME TlsRecordFragAssumption ==
    TlsRecordFragHandshake \union TlsRecordFragData \subseteq MethodActions
=============================================================================
