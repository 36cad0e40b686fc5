------------------------------ MODULE MCInstall ------------------------------
EXTENDS Install

\* The two binaries of the image, in the order of their names.
MCBinaries == <<"dynamic-credential-provider", "static-credential-provider">>
==============================================================================
