-------------------------------- MODULE Probe --------------------------------
(***************************************************************************)
(* One TLS, TTFB and throughput probe (probe_tls_ttfb, probe_ip_upload in  *)
(* ip_scanner.rs, and measure_upload in scanner_http.rs).  Every await is  *)
(* under a timeout, so every step that waits may also fail.                *)
(***************************************************************************)
EXTENDS Score

CONSTANTS
    SniValid,       \* IP_SCAN_SNI is a server name
    Times,          \* bound: the latencies a probe may measure
    Speeds,         \* bound: the throughputs it may measure
    DownloadCap,    \* SCAN_DOWNLOAD_CAP, in chunks
    UploadCap,      \* SCAN_UPLOAD_CAP, in chunks of at most 16 KiB
    ResponseMax     \* the 1024-byte buffer for the answer's status line

ASSUME ProbeAssumption ==
    /\ SniValid \in BOOLEAN
    /\ Times \subseteq Nat /\ Speeds \subseteq Nat
    /\ {DownloadCap, UploadCap, ResponseMax} \subseteq Nat \ {0}

VARIABLES
    pc,         \* where the probe is
    tcp,        \* the latency phase 1 measured
    tls,        \* tls_latency_ms
    ttfb,       \* ttfb_ms
    total_read, \* bytes of the answer to the GET
    down,       \* download_bps
    remaining,  \* bytes of the upload not yet written
    response,   \* bytes of the answer to the POST
    up,         \* upload_bps
    entry       \* what the probe returned, or None

vars == <<pc, tcp, tls, ttfb, total_read, down, remaining, response, up, entry>>

Init ==
    /\ tcp \in Times
    /\ pc = "reconnect"
    /\ tls = None /\ ttfb = None /\ total_read = 0 /\ down = None
    /\ remaining = UploadCap /\ response = 0 /\ up = None
    /\ entry = None

Measured == <<tls, ttfb, total_read, down, remaining, response, up>>

Return(e) ==
    /\ pc' = "returned"
    /\ entry' = e
    /\ UNCHANGED <<tcp, Measured>>

GoTo(l) == pc' = l /\ UNCHANGED <<tcp, entry>>

-----------------------------------------------------------------------------
\* The first connection: TLS, then GET /cdn-cgi/trace.

\* The address no longer answers, or the SNI is no name: a score of 0.
NoStream ==
    /\ pc = "reconnect"
    /\ Return(TcpOnly(tcp))

Reconnect ==
    /\ pc = "reconnect" /\ SniValid
    /\ GoTo("handshake")
    /\ UNCHANGED Measured

\* Mutant of HandshakeFails: the failed handshake counts as one.
HandshakeIgnored ==
    /\ pc = "handshake"
    /\ Return(TlsEntry(tcp, tls, ttfb, down, up))

HandshakeFails ==
    /\ pc = "handshake"
    /\ Return(Scored(TcpOnly(tcp)))

Handshake ==
    /\ pc = "handshake"
    /\ tls' \in Times
    /\ GoTo("request")
    /\ UNCHANGED <<ttfb, total_read, down, remaining, response, up>>

RequestFails ==
    /\ pc = "request"
    /\ GoTo("scoring")
    /\ UNCHANGED Measured

Request ==
    /\ pc = "request"
    /\ GoTo("reading")
    /\ UNCHANGED Measured

\* stream.read returns n > 0 bytes; the first of them give the TTFB.
Read ==
    /\ pc = "reading" /\ total_read < DownloadCap
    /\ \E n \in 1 .. DownloadCap - total_read : total_read' = total_read + n
    /\ IF ttfb = None THEN ttfb' \in Times ELSE UNCHANGED ttfb
    /\ GoTo("reading")
    /\ UNCHANGED <<tls, down, remaining, response, up>>

\* The buffer is full, the stream ended, failed, or was silent too long.  No
\* speed is computed when no time was measured.
ReadOver ==
    /\ pc = "reading"
    /\ IF total_read > 0 THEN down' \in Speeds \cup {None} ELSE UNCHANGED down
    /\ GoTo(IF ttfb = None THEN "scoring" ELSE "up_connect")
    /\ UNCHANGED <<tls, ttfb, total_read, remaining, response, up>>

-----------------------------------------------------------------------------
\* The second connection: POST, then the first line of the answer.

Uploading == {"up_connect", "up_handshake", "up_request",
              "up_body", "up_answer"}

\* Mutant of UploadFails: a failed upload is tried again.
UploadRetries ==
    /\ pc \in Uploading
    /\ GoTo("up_connect")
    /\ remaining' = UploadCap /\ response' = 0
    /\ UNCHANGED <<tls, ttfb, total_read, down, up>>

\* Any of its awaits fails, or one timeout covers body and answer.
UploadFails ==
    /\ pc \in Uploading
    /\ GoTo("scoring")
    /\ UNCHANGED Measured

UploadReady ==
    /\ pc \in {"up_connect", "up_handshake", "up_request"}
    /\ GoTo(CASE pc = "up_connect"   -> "up_handshake"
              [] pc = "up_handshake" -> "up_request"
              [] pc = "up_request"   -> "up_body")
    /\ UNCHANGED Measured

WriteBody ==
    /\ pc = "up_body" /\ remaining > 0
    /\ remaining' = remaining - 1
    /\ GoTo("up_body")
    /\ UNCHANGED <<tls, ttfb, total_read, down, response, up>>

Flush ==
    /\ pc = "up_body" /\ remaining = 0
    /\ GoTo("up_answer")
    /\ UNCHANGED Measured

\* A read that brings no end of line: the loop goes on.
ReadAnswer ==
    /\ pc = "up_answer" /\ response < ResponseMax
    /\ \E n \in 1 .. ResponseMax - response : response' = response + n
    /\ GoTo("up_answer")
    /\ UNCHANGED <<tls, ttfb, total_read, down, remaining, up>>

\* End of line, end of stream or a full buffer: a parsed status gives the
\* elapsed time, anything else None.
Answered ==
    /\ pc = "up_answer"
    /\ \E n \in 0 .. ResponseMax - response : response' = response + n
    /\ up' \in IF response' > 0 THEN Speeds \cup {None} ELSE {None}
    /\ GoTo("scoring")
    /\ UNCHANGED <<tls, ttfb, total_read, down, remaining>>

Finish ==
    /\ pc = "scoring"
    /\ Return(TlsEntry(tcp, tls, ttfb, down, up))

-----------------------------------------------------------------------------
Next ==
    \/ NoStream \/ Reconnect
    \/ HandshakeFails \/ Handshake
    \/ RequestFails \/ Request \/ Read \/ ReadOver
    \/ UploadFails \/ UploadReady \/ WriteBody \/ Flush
    \/ ReadAnswer \/ Answered
    \/ Finish

Spec == Init /\ [][Next]_vars

\* Every await is under a timeout: a probe never stays where it is.
FairSpec == Spec /\ WF_vars(Next)

-----------------------------------------------------------------------------
TypeOK ==
    /\ pc \in {"reconnect", "handshake", "request", "reading", "scoring", "returned"}
                \cup Uploading
    /\ {tcp, tls, ttfb} \subseteq Times \cup {None}
    /\ {down, up} \subseteq Speeds \cup {None}
    /\ total_read \in 0 .. DownloadCap
    /\ remaining \in 0 .. UploadCap
    /\ response \in 0 .. ResponseMax
    /\ entry \in Entry \cup {None}

\* The entry a probe returns is one the scanner can rank: its score is a
\* percentage, a TLS latency is there exactly when the handshake succeeded,
\* and it is healthy only if every phase was gone through.
EntryIsSound ==
    entry # None =>
        /\ entry.score \in 0 .. 100
        /\ entry.tls_ok = (tls # None) /\ entry.cert = entry.tls_ok
        /\ Healthy(entry) => total_read > 0 /\ remaining = 0 /\ response > 0
        /\ entry.ttfb = ttfb /\ entry.up = up

\* A probe ends, even against a server that sends one byte at a time.
Returns == <>(entry # None)
=============================================================================
