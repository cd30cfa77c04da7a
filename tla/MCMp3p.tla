------------------------------- MODULE MCMp3p -------------------------------
\* Small instances of the monitoring protocol: a few commands of one operator,
\* a few attempts each.
EXTENDS Mp3p
=============================================================================
