---------------------------- MODULE DiagnosticClaims ----------------------------
(***************************************************************************)
(* What decision 0031, comments and settings say of diagnostics and the    *)
(* code does not do.  Each definition is the property of one run that      *)
(* expects a violation; other such runs use RestShowsCurrentText,          *)
(* RestShowsCurrentDependencies and StaleNoticeMeansRunning under wider    *)
(* constants than the runs that pass.                                      *)
(***************************************************************************)
EXTENDS DiagnosticManager

\* pikeWorker.ts:225: the backoff is a special result the caller can tell: an
\* empty list from a worker that was not asked is not kept as a verdict.
BackoffIsNotAVerdict == \A u \in Docs : cache[u].text # NoText => cache[u].verdict.checked

\* Decision 0031, section 6: in mode off there are no Pike diagnostics: Pike is
\* not asked for any.
OffAsksNothing == [][mode = "off" => Len(runs') <= Len(runs)]_vars

\* Decision 0031, section 3: the stale notice is published alongside the
\* previous diagnostics.
StaleKeepsPrevious ==
  [][\A u \in Docs :
       shown[u].notice = "none" /\ shown'[u].notice = "stale"
         => shown'[u].parse = shown[u].parse /\ shown'[u].pike = shown[u].pike]_vars
===============================================================================
