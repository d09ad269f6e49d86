--------------------------- MODULE MCFrameEngine ---------------------------
EXTENDS FrameEngine
=============================================================================
