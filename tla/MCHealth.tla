------------------------------ MODULE MCHealth ------------------------------
(* Small instances of EncoderHealth for TLC.                                 *)
EXTENDS EncoderHealth

\* One with a device and a profile for a codec that it has no encoder for, one
\* whose encoder for the configured codec the device lacks, one whose probes fail
\* on a device that works, one that does not probe.
FourConfigs ==
    { [backend |-> "auto", codec |-> "hevc", targets |-> {"hevc", "av1"}, check |-> TRUE,
       compiled |-> {"hevc_nvenc", "libx265"}, device |-> {"hevc_nvenc"}],
      [backend |-> "auto", codec |-> "av1", targets |-> {"av1"}, check |-> TRUE,
       compiled |-> {"hevc_nvenc", "av1_nvenc", "libaom-av1"}, device |-> {"hevc_nvenc"}],
      [backend |-> "vaapi", codec |-> "av1", targets |-> {"av1"}, check |-> TRUE,
       compiled |-> {"av1_vaapi"}, device |-> {"av1_vaapi"}],
      [backend |-> "nvenc", codec |-> "hevc", targets |-> {"hevc"}, check |-> FALSE,
       compiled |-> {"hevc_nvenc"}, device |-> {"hevc_nvenc"}] }
=============================================================================
