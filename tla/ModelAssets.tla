---------------------------- MODULE ModelAssets ----------------------------
(***************************************************************************)
(* The files the models are made of, side by side: the runner and model    *)
(* the user imports, the extraction and the verification of the Parakeet   *)
(* package, and the manifest of what comes with the program.               *)
(***************************************************************************)
EXTENDS InstructAssets, ParakeetPackage, BundledManifest

assetVars == <<instructVars, extractVars, packageVars, bundleVars>>

AssetInit == InstructInit /\ ExtractInit /\ PackageInit /\ BundleInit

AssetNext ==
    \/ InstructNext /\ UNCHANGED <<extractVars, packageVars, bundleVars>>
    \/ ExtractNext /\ UNCHANGED <<instructVars, packageVars, bundleVars>>
    \/ PackageNext /\ UNCHANGED <<instructVars, extractVars, bundleVars>>
    \/ BundleNext /\ UNCHANGED <<instructVars, extractVars, packageVars>>

AssetSpec == AssetInit /\ [][AssetNext]_assetVars

\* The imported runner and model, the extracted package and the bundled
\* manifest are used only as they were verified, and a failed import leaves
\* what was usable before it.
AssetsSound ==
    /\ RunsVerified /\ ImportedStaysUsable
    /\ ExtractedIsWhole /\ AcceptedIsWhole
    /\ ReadersAgree /\ ReadyIsUsable
=============================================================================
