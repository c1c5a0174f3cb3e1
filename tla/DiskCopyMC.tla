----------------------------- MODULE DiskCopyMC -----------------------------
EXTENDS DiskCopy

\* Option values below zero: retried since the last change.
MinusOne == -1
=============================================================================
