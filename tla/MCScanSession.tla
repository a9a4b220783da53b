---------------------------- MODULE MCScanSession ----------------------------
\* The TLC instances of ScanSession: a list with one address
\* twice, and a probe that measures every phase or fails its upload.
EXTENDS ScanSession

CONSTANTS a, b

ListTwice == <<a, a, b>>

Full     == [tls |-> 500, ttfb |-> 1000, down |-> 1024, up |-> 1024]
NoUpload == [tls |-> 0, ttfb |-> 0, down |-> 2048, up |-> None]

BothMeasurements == {Full, NoUpload}
=============================================================================
