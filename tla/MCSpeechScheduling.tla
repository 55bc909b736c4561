------------------------- MODULE MCSpeechScheduling -------------------------
EXTENDS SpeechScheduling

MCApiCalls == {<<"say", FALSE>>, <<"reply", TRUE>>}
MCAllApiCalls == {"say", "reply"} \X BOOLEAN
=============================================================================
