---------------------------- MODULE PartsProofs ----------------------------
(***************************************************************************)
(* The parts together: a behaviour of all parts is one of each, so what    *)
(* was proved of a part holds of it there.                                 *)
(***************************************************************************)
EXTENDS Parts, ServerPartsProofs, ClientPartsProofs

\* A step of all parts is one of a part, or the part stays.
LEMMA SignalingAlone == [PartsNext]_partsVars => [SignalingNext]_signalingVars
  BY DEF PartsNext, partsVars, Rest

LEMMA RegistrationAlone == [PartsNext]_partsVars => [RegistrationNext]_registrationVars
  BY DEF PartsNext, partsVars, Rest

LEMMA BundleAlone == [PartsNext]_partsVars => [BundleNext]_bundleVars
  BY DEF PartsNext, partsVars, Rest

LEMMA BlobAlone == [PartsNext]_partsVars => [BlobNext]_blobVars
  BY DEF PartsNext, partsVars, Rest

LEMMA PresenceAlone == [PartsNext]_partsVars => [PresenceNext]_presenceVars
  BY DEF PartsNext, partsVars, Rest

LEMMA RateAlone == [PartsNext]_partsVars => [RateNext]_rateVars
  BY DEF PartsNext, partsVars, Rest

LEMMA VaultAlone == [PartsNext]_partsVars => [VaultNext]_vaultVars
  BY DEF PartsNext, partsVars, Rest

LEMMA TrustAlone == [PartsNext]_partsVars => [TrustNext]_trustVars
  BY DEF PartsNext, partsVars, Rest

LEMMA PlaybackAlone == [PartsNext]_partsVars => [PlaybackNext]_playbackVars
  BY DEF PartsNext, partsVars, Rest

LEMMA VersionAlone == [PartsNext]_partsVars => [VersionNext]_versionVars
  BY DEF PartsNext, partsVars, Rest

\* Refinement: the specification of all parts, which the run checks, implements the
\* specification of each part, which the proofs are about.
THEOREM PartsImplementEach ==
  PartsSpec =>
    /\ SignalingSpec
    /\ RegistrationSpec
    /\ BundleSpec
    /\ BlobSpec
    /\ PresenceSpec
    /\ RateSpec
    /\ VaultSpec
    /\ TrustSpec
    /\ PlaybackSpec
    /\ VersionSpec
  <1>1. PartsSpec => SignalingSpec
    <2>1. PartsInit => SignalingInit
      BY DEF PartsInit
    <2>2. QED
      BY <2>1, SignalingAlone, PTL DEF PartsSpec, SignalingSpec
  <1>2. PartsSpec => RegistrationSpec
    <2>1. PartsInit => RegistrationInit
      BY DEF PartsInit
    <2>2. QED
      BY <2>1, RegistrationAlone, PTL DEF PartsSpec, RegistrationSpec
  <1>3. PartsSpec => BundleSpec
    <2>1. PartsInit => BundleInit
      BY DEF PartsInit
    <2>2. QED
      BY <2>1, BundleAlone, PTL DEF PartsSpec, BundleSpec
  <1>4. PartsSpec => BlobSpec
    <2>1. PartsInit => BlobInit
      BY DEF PartsInit
    <2>2. QED
      BY <2>1, BlobAlone, PTL DEF PartsSpec, BlobSpec
  <1>5. PartsSpec => PresenceSpec
    <2>1. PartsInit => PresenceInit
      BY DEF PartsInit
    <2>2. QED
      BY <2>1, PresenceAlone, PTL DEF PartsSpec, PresenceSpec
  <1>6. PartsSpec => RateSpec
    <2>1. PartsInit => RateInit
      BY DEF PartsInit
    <2>2. QED
      BY <2>1, RateAlone, PTL DEF PartsSpec, RateSpec
  <1>7. PartsSpec => VaultSpec
    <2>1. PartsInit => VaultInit
      BY DEF PartsInit
    <2>2. QED
      BY <2>1, VaultAlone, PTL DEF PartsSpec, VaultSpec
  <1>8. PartsSpec => TrustSpec
    <2>1. PartsInit => TrustInit
      BY DEF PartsInit
    <2>2. QED
      BY <2>1, TrustAlone, PTL DEF PartsSpec, TrustSpec
  <1>9. PartsSpec => PlaybackSpec
    <2>1. PartsInit => PlaybackInit
      BY DEF PartsInit
    <2>2. QED
      BY <2>1, PlaybackAlone, PTL DEF PartsSpec, PlaybackSpec
  <1>10. PartsSpec => VersionSpec
    <2>1. PartsInit => VersionInit
      BY DEF PartsInit
    <2>2. QED
      BY <2>1, VersionAlone, PTL DEF PartsSpec, VersionSpec
  <1>11. QED
    BY <1>1, <1>2, <1>3, <1>4, <1>5, <1>6, <1>7, <1>8, <1>9, <1>10

\* PartsTypeOK: every variable of the part that was chosen has its type.
THEOREM PartsTypeCorrect == PartsSpec => []PartsTypeOK
  <1>1. SignalingSpec => []SignalingTypeOK
    <2>1. SignalingInv => SignalingTypeOK
      BY DEF SignalingInv
    <2>2. QED
      BY <2>1, SignalingInvariant, PTL
  <1>2. RegistrationSpec => []RegistrationTypeOK
    <2>1. RegistrationInv => RegistrationTypeOK
      BY DEF RegistrationInv
    <2>2. QED
      BY <2>1, RegistrationInvariant, PTL
  <1>3. BundleSpec => []BundleTypeOK
    <2>1. PoolInv => BundleTypeOK
      BY DEF PoolInv
    <2>2. QED
      BY <2>1, PoolInvariant, PTL
  <1>4. BlobSpec => []BlobTypeOK
    <2>1. UploadInv => BlobTypeOK
      BY DEF UploadInv
    <2>2. QED
      BY <2>1, UploadInvariant, PTL
  <1>5. PresenceSpec => []PresenceTypeOK
    <2>1. SocketInv => PresenceTypeOK
      BY DEF SocketInv
    <2>2. QED
      BY <2>1, SocketInvariant, PTL
  <1>6. RateSpec => []RateTypeOK
    <2>1. RateInv => RateTypeOK
      BY DEF RateInv
    <2>2. QED
      BY <2>1, RateInvariant, PTL
  <1>7. VaultSpec => []VaultTypeOK
    <2>1. VaultInv => VaultTypeOK
      BY DEF VaultInv
    <2>2. QED
      BY <2>1, VaultInvariant, PTL
  <1>8. PlaybackSpec => []PlaybackTypeOK
    <2>1. PlaybackInv => PlaybackTypeOK
      BY DEF PlaybackInv
    <2>2. QED
      BY <2>1, PlaybackInvariant, PTL
  <1>9. VersionSpec => []VersionTypeOK
    <2>1. VersionInv => VersionTypeOK
      BY DEF VersionInv
    <2>2. QED
      BY <2>1, VersionInvariant, PTL
  <1>10. /\ SignalingTypeOK
          /\ RegistrationTypeOK
          /\ BundleTypeOK
          /\ BlobTypeOK
          /\ PresenceTypeOK
          /\ RateTypeOK
          /\ VaultTypeOK
          /\ TrustTypeOK
          /\ PlaybackTypeOK
          /\ VersionTypeOK
          => PartsTypeOK
    BY DEF PartsTypeOK
  <1>11. QED
    BY <1>1, <1>2, <1>3, <1>4, <1>5, <1>6, <1>7, <1>8, <1>9, <1>10, TrustTypeCorrect, PartsImplementEach, PTL

\* The safety invariants that the run checks, each of its part, and the action property.
THEOREM PartsCorrect ==
  PartsSpec =>
    /\ [](SignalsConserved /\ SignalsInOrder)
    /\ [](OneInviteOneAccount /\ PrekeyOnce /\ ConnectedIsOnline /\ AttemptsBounded)
    /\ [](ReferencedComplete /\ BlobBounded /\ LateLogoutHarmless)
    /\ [](UnpinnedSessionWarned /\ NoStutter /\ RefusedIsOffered)
    /\ IdentityKept
  BY PartsImplementEach, SignalsConservedHolds, SignalsInOrderHolds, OneInviteOneAccountHolds,
     PrekeyOnceHolds, ConnectedIsOnlineHolds, AttemptsBoundedHolds, ReferencedCompleteHolds,
     BlobBoundedHolds, LateLogoutHarmlessHolds, UnpinnedSessionWarnedHolds, NoStutterHolds,
     RefusedIsOfferedHolds, IdentityKeptHolds, PTL
=============================================================================
