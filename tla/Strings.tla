------------------------------ MODULE Strings ------------------------------
(***************************************************************************)
(* A string that is edited and a stream that is read, side by side.         *)
(***************************************************************************)
EXTENDS Bstring

CONSTANTS Sources, Terminators, Returned, Sizes, MaxRead, MaxRest, MaxText

VARIABLES source, partial, failed, buff, isEOF, maxBuffSz, read, call, ret

streamVars == <<source, partial, failed, buff, isEOF, maxBuffSz, read, call, ret>>

BS == INSTANCE BstrStream WITH r <- read

\* The variables of both have their types: a string has room for its characters,
\* and a read under way has at most what it was asked for.
TypesOK == TypeOK /\ BS!TypeOK

\* The characters of the source and those put back are read once each and in order
\* (see BstrStream and Stream).
ImplementsStream == BS!ImplementsStream

\* A line ends behind its terminator, a length is exact, nothing is read ahead and
\* an error means that nothing is left or the source has failed (see BstrStream).
ReadsAsAsked == BS!ReadsAsAsked

\* Every call of a reading function returns (see BstrStream).
CallsReturn == BS!CallsReturn
=============================================================================
