--------------------------------- MODULE MCRio ---------------------------------
EXTENDS RioProps
=============================================================================
