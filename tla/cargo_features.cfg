\* Three packages and three features, in native and cross builds
CONSTANTS
    a = a  b = b  c = c  Nothing = Nothing
    Pkg = {a, b, c}
    Main = a
    Feature = {"default", "x", "y"}
    Manifests <- MCManifests
SPECIFICATION Spec
INVARIANT
    ResultIsLeast
