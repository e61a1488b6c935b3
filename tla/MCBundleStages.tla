---------------------------- MODULE MCBundleStages ----------------------------
(* Three configurations: another engine for layer 2, another provider, and   *)
(* one without diarization.                                                  *)
EXTENDS BundleStages

st(d, p, h) == [engine |-> "e", diar |-> d, provider |-> p, hints |-> h]

SettingsDef == {st("d1", "vision", "h1"), st("d2", "plain", "h2"), st("none", "vision", "h1")}
=============================================================================
