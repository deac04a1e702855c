--------------------------- MODULE MCDeviceLifecycle ---------------------------
\* Small instances of DeviceLifecycle.
EXTENDS DeviceLifecycle, TLC

\* The rows and the request slots are interchangeable.
Interchangeable == Permutations(Row) \cup Permutations(Session)
================================================================================
