--------------------------------- MODULE MCApp ---------------------------------
EXTENDS App, MCWatcher
=============================================================================
