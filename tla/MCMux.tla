------------------------------- MODULE MCMux -------------------------------
(* Mux serving two requests, from every kind of endpoint and from those that *)
(* have static content.                                                      *)
EXTENDS Mux, TLC

AllEncodings == {"gzip", "br"}
NoneOrTwo == {0, 2}
AllEndpoints ==
  [public : BOOLEAN, cachePublic : BOOLEAN, cors : BOOLEAN, fetchMetadata : BOOLEAN,
   static : BOOLEAN, handler : {"none", "adds", "answers"}]
Interchangeable == Permutations(Requests)
=============================================================================
