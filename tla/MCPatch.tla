------------------------------- MODULE MCPatch -------------------------------
\* The constants of Patch for TLC.  Input 0 is no channel as a word, nor are
\* inputs past DMX_CHANNELS.  "HANDLE_RAW_VALUE" is patched as a laser is, and
\* "HANDLE_BPM" is to the patch what "DEFAULT" is; "HANDLE_TAPSYNC" writes the
\* word too, but no reader that looks for a channel finds it.
EXTENDS Patch

AllKinds == {"HANDLE_LED_2CH_INTENSITY", "HANDLE_LASER", "DEFAULT", "UNKNOWN"}
AllTargets == 0 .. DMX_CHANNELS

=============================================================================
