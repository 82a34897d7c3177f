------------------------------- MODULE Parts -------------------------------
(***************************************************************************)
(* Ten parts of the system that share no state with each other: a          *)
(* behaviour is one of one part, which is chosen at the start, while the   *)
(* others stay as they are initially.                                      *)
(***************************************************************************)
EXTENDS CallSignaling, Registration, BundlePool, BlobUpload, DevicePresence,
        LoginRateLimit, LocalVault, PeerTrust, Playback, Versions

VARIABLE part

Part == {"signaling", "registration", "prekeys", "blobs", "presence", "rate",
         "vault", "trust", "playback", "versions"}

partsVars ==
  <<part, signalingVars, registrationVars, bundleVars, blobVars, presenceVars,
    rateVars, vaultVars, trustVars, playbackVars, versionVars>>

\* Every variable has its type.
PartsTypeOK ==
  /\ part = "signaling" => SignalingTypeOK
  /\ part = "registration" => RegistrationTypeOK
  /\ part = "prekeys" => BundleTypeOK
  /\ part = "blobs" => BlobTypeOK
  /\ part = "presence" => PresenceTypeOK
  /\ part = "rate" => RateTypeOK
  /\ part = "vault" => VaultTypeOK
  /\ part = "trust" => TrustTypeOK
  /\ part = "playback" => PlaybackTypeOK
  /\ part = "versions" => VersionTypeOK

\* Where a part has several initial states, the behaviours of the others begin in one.
PartsInit ==
  /\ part \in Part
  /\ SignalingInit
  /\ RegistrationInit
  /\ BundleInit
  /\ BlobInit
  /\ PresenceInit
  /\ RateInit
  /\ VaultInit
  /\ TrustInit
  /\ PlaybackInit
  /\ VersionInit
  /\ part # "vault" => legacy = Absent /\ \A a, b \in Account : password[a] = password[b]
  /\ part # "versions" => installed = <<0, 1>>

\* The others stay.
Rest(p) ==
  /\ UNCHANGED part
  /\ p # "signaling" => UNCHANGED signalingVars
  /\ p # "registration" => UNCHANGED registrationVars
  /\ p # "prekeys" => UNCHANGED bundleVars
  /\ p # "blobs" => UNCHANGED blobVars
  /\ p # "presence" => UNCHANGED presenceVars
  /\ p # "rate" => UNCHANGED rateVars
  /\ p # "vault" => UNCHANGED vaultVars
  /\ p # "trust" => UNCHANGED trustVars
  /\ p # "playback" => UNCHANGED playbackVars
  /\ p # "versions" => UNCHANGED versionVars

PartsNext ==
  \/ part = "signaling" /\ SignalingNext /\ Rest("signaling")
  \/ part = "registration" /\ RegistrationNext /\ Rest("registration")
  \/ part = "prekeys" /\ BundleNext /\ Rest("prekeys")
  \/ part = "blobs" /\ BlobNext /\ Rest("blobs")
  \/ part = "presence" /\ PresenceNext /\ Rest("presence")
  \/ part = "rate" /\ RateNext /\ Rest("rate")
  \/ part = "vault" /\ VaultNext /\ Rest("vault")
  \/ part = "trust" /\ TrustNext /\ Rest("trust")
  \/ part = "playback" /\ PlaybackNext /\ Rest("playback")
  \/ part = "versions" /\ VersionNext /\ Rest("versions")

PartsSpec == PartsInit /\ [][PartsNext]_partsVars
=============================================================================
