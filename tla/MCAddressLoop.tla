--------------------------- MODULE MCAddressLoop ---------------------------
EXTENDS AddressLoop
============================================================================
