--------------------------- MODULE MCPythonPackage ---------------------------
(***************************************************************************)
(* The Python package for TLC: the loader and the wrappers.  They share no *)
(* variable, so the loader is explored beside one state of the wrappers,   *)
(* and the wrappers where the loader finds everything it looks for.        *)
(*                                                                         *)
(* The texts: an empty one and another, the endpoint of the code with and  *)
(* without a slash at its end, and a text that is no URI.                  *)
(***************************************************************************)
EXTENDS MCProviderRuntime, PythonWrappers

MCAbsoluteUris == {"https://api.openai.com/v1", "https://api.openai.com/v1/"}
MCWithoutSlash == [uri \in MCAbsoluteUris |-> "https://api.openai.com/v1"]

PackageInit == Init /\ SurfaceInit

Loads == SurfaceInit /\ Next /\ UNCHANGED surfaceVars

Wraps ==
  /\ Init /\ pythonnet /\ \A a \in Names : Exists(a, NativeRoot)
  /\ SurfaceNext
  /\ UNCHANGED vars

PackageSpec == PackageInit /\ [][Loads \/ Wraps]_<<vars, surfaceVars>>
=============================================================================
