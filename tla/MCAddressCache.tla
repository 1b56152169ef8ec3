--------------------------- MODULE MCAddressCache ---------------------------
(* Finite instance of AddressCache: an entry lives two ticks, a query one.  *)
EXTENDS AddressCache
=============================================================================
