------------------------------ MODULE Catalog ------------------------------
(***************************************************************************)
(* CatalogService.scan (catalog.py) for the clips that are already         *)
(* catalogued: what one scan writes into a clip's row, given the row it    *)
(* read, the content fingerprint it computed and what ffprobe said.        *)
(***************************************************************************)
EXTENDS Naturals

\* Mutant: a file that is back is ready, whether or not it was ever compiled.
ReturnedClipIsReady(seen, out, fp, valid) ==
  [state |-> CASE seen.fp # fp -> (IF seen.out THEN "stale" ELSE "discovered")
               [] seen.fp = fp /\ seen.state = "deleted" ->
                    (IF valid THEN "ready" ELSE "invalid")
               [] OTHER -> seen.state,
   out |-> out, fp |-> fp]

\* The row written for a clip whose file was found.  seen is the row the scan
\* read, fp the fingerprint of the file, valid the verdict of the probe.
\* output_available is not written, so it is the row's present value, out.
ScannedClip(seen, out, fp, valid) ==
  LET fresh == IF valid THEN "discovered" ELSE "invalid" IN
  [state |-> CASE seen.fp # fp -> (IF seen.out THEN "stale" ELSE fresh)
               [] seen.fp = fp /\ seen.state = "deleted" ->
                    (IF seen.out /\ valid THEN "ready" ELSE fresh)
               [] OTHER -> seen.state,
   out |-> out, fp |-> fp]

\* The row written for a clip whose file was not found.
MissingClip(row) == [row EXCEPT !.state = "deleted"]
=============================================================================
