--------------------------- MODULE MCHttpTransport ----------------------------
(* A small instance of HttpTransport for TLC.                              *)
EXTENDS HttpTransport

(* Of the limit of 3 octets, below it and above; characters at every place *)
(* a chunk can end, a body that ends within one, and stray octets.         *)
SmallBodies ==
  {<<"ascii", "lead", "trail">>, <<"lead", "trail", "lead">>,
   <<"lead", "lead", "trail">>, <<"trail", "ascii">>,
   <<"ascii", "ascii", "lead", "trail">>, << >>}
=============================================================================
